---------------------------- MODULE Spec2Model ----------------------------
(***************************************************************************)
(* Incident-response pipeline of Project Aether: the agent orchestrator    *)
(* (src/agents/orchestrator/core.py), the specialised agents               *)
(* (src/agents/specialized/incident_agents.py) and the multi-hop           *)
(* root-cause query of the knowledge graph (src/knowledge_graph/graph.py). *)
(***************************************************************************)
EXTENDS Integers, Sequences, FiniteSets, TLC

VARIABLES
    agents,             \* AgentOrchestrator.agents: name -> registered agent
    flow,               \* AgentOrchestrator.flow: <<>> while the attribute is unset, <<f>> once create_flow ran
    execution_history,  \* AgentOrchestrator.execution_history
    context,            \* AgentOrchestrator.context: 0 for None, else the id of an AgentContext object
    ctxs,               \* the AgentContext objects created so far, by id
    run,                \* one record per call of execute_incident_workflow: its locals and position
    control,            \* the coroutine the event loop is running (0: none)
    graph,              \* the knowledge graph held by the store: services and DEPENDS_ON edges
    query,              \* the parameters of the last multi_hop_analysis call (<<>>: none yet)
    records,            \* the records that call returned
    last_write,         \* the last write call on the store and what it returned (<<>>: none yet)
    declared_metrics,   \* the DEPENDS_ON pairs whose latest add_dependency call carried metrics
    earlier,            \* what the call before the last returned, when the last call repeated it (<<>>: otherwise)
    traversal,          \* the multi_hop_analysis query the database is evaluating (<<>>: none)
    topology,           \* the last get_service_topology call and what it returned (<<>>: none yet)
    execution,          \* the last execute called on an agent directly: its inputs, result and tool calls
    turn                \* an execute of an agent that is under way, followed step by step (<<>>: none)

vars == <<agents, flow, execution_history, context, ctxs, run, control, execution, turn,
          graph, query, records, last_write, declared_metrics, earlier, traversal,
          topology>>

orchVars == <<agents, flow, execution_history, context, ctxs, run, control, execution, turn>>
graphVars == <<graph, query, records, last_write, declared_metrics, earlier, traversal,
               topology>>

(***************************************************************************)
(* Bounds of the model.                                                    *)
(***************************************************************************)
MaxFlowLen == 2     \* longest flow handed to a run or stored by create_flow
MaxSteps == 2      \* flow entries over all runs of one behaviour
MaxHops == 3        \* largest max_hops a query is called with

RunIds == {1, 2}

(***************************************************************************)
(* Python values.  A dict is a record over the keys the program uses; a    *)
(* key that is absent holds <<>>, a key that is present holds <<value>>.   *)
(* t tells a dict from the other values json.loads can return.             *)
(***************************************************************************)
EmptyDict ==
    [t |-> "dict", severity |-> <<>>, category |-> <<>>, actions |-> <<>>,
     response |-> <<>>, recommendations |-> <<>>, findings |-> <<>>,
     root_causes |-> <<>>, executed_actions |-> <<>>, next_agents |-> <<>>,
     terminate |-> <<>>]

JsonList == [EmptyDict EXCEPT !.t = "list"]
JsonNumber == [EmptyDict EXCEPT !.t = "number"]

HasKey(d, k) == d[k] # <<>>

\* dict.get(k, default)
Get(d, k, default) == IF HasKey(d, k) THEN d[k][1] ELSE default

\* key lookup in one of the small dicts the agents build in place, whose
\* keys are the record's own fields
RecGet(r, k, default) == IF k \in DOMAIN r THEN r[k] ELSE default

Append2(s, a, b) == Append(Append(s, a), b)

(***************************************************************************)
(* The reasoning service.  A reply either raises or carries a content      *)
(* string.  A content string is described by what _parse_response looks    *)
(* at: whether it holds a ```json fence or a bare ``` fence, and what      *)
(* json.loads makes of the text it is applied to (nothing when the text    *)
(* is not JSON).                                                           *)
(***************************************************************************)
JsonText(valid, value, text) == [valid |-> valid, value |-> value, text |-> text]

\* a reply's content: the whole string, the kind of its first fence and the
\* text inside that fence
Content(fence, whole, inner) == [fence |-> fence, whole |-> whole, inner |-> inner]

TriageJson(sev, cat) ==
    [EmptyDict EXCEPT !.severity = <<sev>>, !.category = <<cat>>]

ScaleAction ==
    [type |-> "scale", action |-> "increase_replicas", resource |-> "A",
     namespace |-> "default"]

NotJson(text) == JsonText(FALSE, EmptyDict, text)

ContentEmpty == Content("none", NotJson(""), NotJson(""))
ContentText == Content("none", NotJson("text"), NotJson("text"))
ContentTriage ==
    Content("json", NotJson("fenced-triage"),
            JsonText(TRUE, TriageJson("high", "performance"), "triage"))
\* a JSON object whose severity and category are words of the service's own
ContentTriageFree ==
    Content("none", JsonText(TRUE, TriageJson("urgent", "network"), "triage-free"),
            NotJson(""))
ContentActions ==
    Content("none",
            JsonText(TRUE, [EmptyDict EXCEPT !.actions = <<(<<ScaleAction>>)>>], "actions"),
            NotJson(""))
\* a JSON object that proposes a critical action next to its recommendations
ContentAdvice ==
    Content("none",
            JsonText(TRUE,
                     [EmptyDict EXCEPT
                         !.recommendations = <<(<<[issue |-> "Saturation",
                                                   severity |-> "critical"]>>)>>,
                         !.actions = <<(<<[type |-> "scale", action |-> "increase_replicas",
                                           resource |-> "A", namespace |-> "default",
                                           severity |-> "critical"]>>)>>],
                     "advice"),
            NotJson(""))
ContentList == Content("none", JsonText(TRUE, JsonList, "list"), NotJson(""))
ContentNumber ==
    Content("plain", NotJson("fenced-number"), JsonText(TRUE, JsonNumber, "number"))
ContentBadFence == Content("json", NotJson("fenced-text"), NotJson("text"))

LLMRaises == [raises |-> TRUE, content |-> ContentEmpty]
LLMReply(c) == [raises |-> FALSE, content |-> c]

\* OllamaAgent._parse_response: the text after the first ```json fence, else
\* the text after the first ``` fence, else the whole content, goes through
\* json.loads; what is not JSON comes back wrapped as {"response": content}
ParseResponse(content) ==
    LET json_str == IF content.fence \in {"json", "plain"} THEN content.inner
                    ELSE content.whole
    IN IF json_str.valid
       THEN json_str.value
       ELSE [EmptyDict EXCEPT !.response = <<content.whole.text>>]

(***************************************************************************)
(* Agent results.  execute either returns an AgentResult or raises.        *)
(***************************************************************************)
AgentResult(success, message, data, next_agent, terminate) ==
    [raised |-> FALSE, success |-> success, message |-> message, data |-> data,
     next_agent |-> next_agent, terminate |-> terminate]

Raised(error) ==
    [raised |-> TRUE, success |-> FALSE, message |-> error, data |-> EmptyDict,
     next_agent |-> "", terminate |-> FALSE]

\* OllamaAgent.execute, for an agent without tool calls in the reply
OllamaExecute(agent, ctx, env) ==
    IF env.llm.raises
    THEN AgentResult(FALSE, "Error executing", EmptyDict, "", FALSE)
    ELSE AgentResult(TRUE,
                     IF env.llm.content.whole.text # "" THEN env.llm.content.whole.text
                     ELSE "Task completed",
                     ParseResponse(env.llm.content), "", FALSE)

(***************************************************************************)
(* The knowledge graph.  A service node is identified by <<name,           *)
(* namespace>>; graph.services maps the nodes that exist to their          *)
(* properties, graph.edges is the set of DEPENDS_ON relationships, each    *)
(* with metrics = TRUE when its metrics property is not null.              *)
(***************************************************************************)
Names == {"A", "B", "C"}
NodeIds == {<<n, "default">> : n \in Names}
Statuses == {"healthy", "unhealthy"}

Edge(s, t, m) == [source |-> s, target |-> t, metrics |-> m]

\* impact scores are exact decimals with at most MaxHops digits: a score is
\* held as the integer score * Scale
RECURSIVE Pow10(_)
Pow10(n) == IF n = 0 THEN 1 ELSE 10 * Pow10(n - 1)

Scale == Pow10(MaxHops)

\* the two factors the other way round
EdgeFactorSwapped(e) == IF e.metrics THEN 9 ELSE 8

\* CASE WHEN r.metrics IS NOT NULL THEN 0.8 ELSE 0.9 END, in tenths
EdgeFactor(e) == IF e.metrics THEN 8 ELSE 9

\* reduce(score = 1.0, r IN relationships(path) | score * factor(r))
RECURSIVE ImpactScore(_)
ImpactScore(path) ==
    IF path = <<>> THEN Scale
    ELSE (ImpactScore(SubSeq(path, 1, Len(path) - 1)) * EdgeFactor(path[Len(path)])) \div 10

\* nodes(path)
PathNodes(path) == <<path[1].source>> \o [i \in 1..Len(path) |-> path[i].target]

Last(s) == s[Len(s)]

\* one more hop of a variable-length pattern: Cypher never walks a
\* relationship twice within one path, while a node may come back
ExtendPath(g, path) ==
    {Append(path, e) : e \in {x \in g.edges :
        /\ x.source = Last(path).target
        /\ \A i \in 1..Len(path) : path[i] # x}}

\* the paths of exactly n relationships that leave a node named start
RECURSIVE PathsOfLength(_, _, _)
PathsOfLength(g, start, n) ==
    IF n = 1
    THEN {<<e>> : e \in {x \in g.edges : x.source[1] = start}}
    ELSE UNION {ExtendPath(g, p) : p \in PathsOfLength(g, start, n - 1)}

\* (start)-[:DEPENDS_ON*1..max_hops]->(root)
MatchPaths(g, start, max_hops) ==
    UNION {PathsOfLength(g, start, n) : n \in 1..max_hops}

\* a filter that looks at the nodes after the start node only
NoHealthyNodeAfterStart(g, path) ==
    \A i \in 2..(Len(path) + 1) : g.services[PathNodes(path)[i]].status # "healthy"

\* WHERE ALL(n IN nodes(path) WHERE n.status <> 'healthy')
NoHealthyNode(g, path) ==
    \A i \in 1..(Len(path) + 1) : g.services[PathNodes(path)[i]].status # "healthy"

\* the RETURN clause
PathRecord(g, path) ==
    LET root == Last(path).target
    IN [service |-> root[1], namespace |-> root[2],
        status |-> g.services[root].status,
        hops |-> Len(path),
        impact_score |-> ImpactScore(path),
        path_services |-> [i \in 1..(Len(path) + 1) |-> PathNodes(path)[i][1]]]

\* the rows of the query before ORDER BY
MultiHopRows(g, start, max_hops, min_score) ==
    {PathRecord(g, p) : p \in {q \in MatchPaths(g, start, max_hops) :
        /\ NoHealthyNode(g, q)
        /\ ImpactScore(q) >= min_score}}

\* the two sort keys the other way round: hops first
BeforeByHops(a, b) ==
    \/ a.hops < b.hops
    \/ a.hops = b.hops /\ a.impact_score > b.impact_score

\* ORDER BY impact_score DESC, hops ASC
Before(a, b) ==
    \/ a.impact_score > b.impact_score
    \/ a.impact_score = b.impact_score /\ a.hops < b.hops

\* every sequence of the rows that the ORDER BY allows: rows that tie on both
\* keys come in an order the database chooses
RECURSIVE Orderings(_)
Orderings(rows) ==
    IF rows = {} THEN {<<>>}
    ELSE UNION {{<<r>> \o rest : rest \in Orderings(rows \ {r})} :
                r \in {x \in rows : \A y \in rows : ~Before(y, x)}}

\* KnowledgeGraph.multi_hop_analysis: the lists a call may return
MultiHopAnalysis(g, start, max_hops, min_score) ==
    Orderings(MultiHopRows(g, start, max_hops, min_score))

(***************************************************************************)
(* The specialised agents.  An agent is a record of its constructor        *)
(* arguments; env holds what the collaborators do during one execute: the  *)
(* reply of the reasoning service, the state of the graph store, and what  *)
(* the status and patch tools return.                                      *)
(***************************************************************************)
Agent(name, cls, use_llm, auto_execute) ==
    [name |-> name, cls |-> cls, use_llm |-> use_llm, auto_execute |-> auto_execute]

\* str.lower on the symptom tags of the model
Lower(s) == IF s = "DOWN" THEN "down" ELSE s

SeqToSet(s) == {s[i] : i \in DOMAIN s}

\* rules that look at the first tag only
RuleBasedClassificationFirstTag(symptoms) ==
    LET symptoms_lower == {Lower(symptoms[i]) : i \in DOMAIN symptoms \cap {1}}
        any(keywords) == \E k \in keywords : k \in symptoms_lower
    IN IF any({"crash", "error", "failure", "down"}) THEN <<"critical", "availability">>
       ELSE IF any({"slow", "latency", "timeout", "performance"}) THEN <<"high", "performance">>
       ELSE IF any({"memory", "cpu", "disk", "resource"}) THEN <<"medium", "resource">>
       ELSE IF any({"warning", "degraded"}) THEN <<"low", "degradation">>
       ELSE <<"unknown", "unknown">>

\* TriageAgent._rule_based_classification
RuleBasedClassification(symptoms) ==
    LET symptoms_lower == {Lower(symptoms[i]) : i \in DOMAIN symptoms}
        any(keywords) == \E k \in keywords : k \in symptoms_lower
    IN IF any({"crash", "error", "failure", "down"}) THEN <<"critical", "availability">>
       ELSE IF any({"slow", "latency", "timeout", "performance"}) THEN <<"high", "performance">>
       ELSE IF any({"memory", "cpu", "disk", "resource"}) THEN <<"medium", "resource">>
       ELSE IF any({"warning", "degraded"}) THEN <<"low", "degradation">>
       ELSE <<"unknown", "unknown">>

TriageResult(severity, category) ==
    AgentResult(TRUE, "Incident classified",
                [EmptyDict EXCEPT !.severity = <<severity>>, !.category = <<category>>,
                                  !.next_agents = <<(<<"root_cause_analyzer">>)>>],
                "root_cause_analyzer", FALSE)

\* TriageAgent.execute
TriageExecute(agent, ctx, env) ==
    IF agent.use_llm
    THEN LET result == OllamaExecute(agent, ctx, env)
         IN IF result.success
            THEN IF result.data.t # "dict"
                 THEN Raised("AttributeError")     \* data.get on a list or a number
                 ELSE TriageResult(Get(result.data, "severity", "unknown"),
                                   Get(result.data, "category", "unknown"))
            ELSE LET c == RuleBasedClassification(ctx.symptoms)
                 IN TriageResult(c[1], c[2])
    ELSE LET c == RuleBasedClassification(ctx.symptoms)
         IN TriageResult(c[1], c[2])

\* KnowledgeGraph.get_dependencies(service_name, direction="upstream")
GetDependenciesUpstream(g, service_name) ==
    {[name |-> e.target[1], namespace |-> e.target[2]] :
        e \in {x \in g.edges : x.source[1] = service_name}}

\* the root_causes entries RootCauseAnalyzer builds from the query's records
RECURSIVE RootCauses(_)
RootCauses(multi_hop_results) ==
    IF multi_hop_results = <<>> THEN <<>>
    ELSE <<[service |-> multi_hop_results[1].service,
            hops |-> multi_hop_results[1].hops,
            impact_score |-> multi_hop_results[1].impact_score,
            path |-> multi_hop_results[1].path_services]>>
         \o RootCauses(Tail(multi_hop_results))

\* RootCauseAnalyzer.execute.  env.kg is "none" when the agent has no graph
\* or the graph has no driver, "deps_raise" and "multi_hop_raises" when that
\* query raises, "ok" otherwise; env.multi_hop is the list the query returns
RootCauseExecute(agent, ctx, env) ==
    LET deps == [type |-> "dependency_analysis",
                 dependencies |-> GetDependenciesUpstream(graph, ctx.service_name)]
        kgError == [type |-> "error", message |-> "Knowledge graph query failed"]
        root_causes == IF env.kg = "ok" THEN RootCauses(env.multi_hop) ELSE <<>>
        f1 == CASE env.kg = "none" -> <<>>
                [] env.kg = "deps_raise" -> <<kgError>>
                [] env.kg = "multi_hop_raises" -> <<deps, kgError>>
                [] OTHER -> <<deps, [type |-> "multi_hop_analysis",
                                     root_causes |-> root_causes]>>
        f2 == IF env.status.raises
              THEN Append(f1, [type |-> "error", message |-> "Status check failed"])
              ELSE Append(f1, [type |-> "service_status", data |-> env.status.value])
        llm_result == OllamaExecute(agent, ctx, env)
        findings == IF agent.use_llm /\ root_causes # <<>> /\ llm_result.success
                    THEN Append(f2, [type |-> "llm_analysis", analysis |-> llm_result.data])
                    ELSE f2
    IN AgentResult(TRUE, "Root cause analysis complete",
                   [EmptyDict EXCEPT !.findings = <<findings>>,
                                     !.root_causes = <<root_causes>>,
                                     !.next_agents = <<(<<"remediation_advisor">>)>>],
                   "remediation_advisor", FALSE)

RestartThreshold == 5
CpuThreshold == 80

\* the first loop of RemediationAdvisor.execute over context.findings:
\* <<recommendations, remediation_actions>>
RECURSIVE StatusAdvice(_, _)
StatusAdvice(ctx, findings) ==
    IF findings = <<>> THEN <<(<<>>), (<<>>)>>
    ELSE LET finding == findings[1]
             rest == StatusAdvice(ctx, Tail(findings))
             isStatus == RecGet(finding, "type", "") = "service_status"
             data == RecGet(finding, "data", [none |-> TRUE])
             restarts == isStatus /\ RecGet(data, "restarts", 0) > RestartThreshold
             cpu == isStatus /\ RecGet(data, "cpu_usage", 0) > CpuThreshold
             recs == (IF restarts
                      THEN <<[issue |-> "High pod restart count", severity |-> "high"]>>
                      ELSE <<>>)
                     \o (IF cpu
                         THEN <<[issue |-> "High CPU usage", severity |-> "medium"]>>
                         ELSE <<>>)
             acts == (IF restarts
                      THEN <<[type |-> "scale", action |-> "increase_replicas",
                              resource |-> ctx.service_name, namespace |-> ctx.namespace]>>
                      ELSE <<>>)
                     \o (IF cpu
                         THEN <<[type |-> "resource", action |-> "increase_cpu_limit",
                                 resource |-> ctx.service_name, namespace |-> ctx.namespace]>>
                         ELSE <<>>)
         IN <<recs \o rest[1], acts \o rest[2]>>

HighImpact == 8     \* impact_score > 0.8, in tenths

\* the recommendations for root_causes[:3] of one multi_hop_analysis finding
RECURSIVE CauseAdvice(_, _)
CauseAdvice(root_causes, n) ==
    IF root_causes = <<>> \/ n = 0 THEN <<>>
    ELSE <<[issue |-> "Dependency issue", service |-> root_causes[1].service,
            severity |-> IF root_causes[1].impact_score * 10 > HighImpact * Scale
                         THEN "high" ELSE "medium"]>>
         \o CauseAdvice(Tail(root_causes), n - 1)

TopCauses == 3

\* the second loop of RemediationAdvisor.execute over context.findings
RECURSIVE RootCauseAdvice(_)
RootCauseAdvice(findings) ==
    IF findings = <<>> THEN <<>>
    ELSE (IF RecGet(findings[1], "type", "") = "multi_hop_analysis"
          THEN CauseAdvice(RecGet(findings[1], "root_causes", <<>>), TopCauses)
          ELSE <<>>)
         \o RootCauseAdvice(Tail(findings))

\* RemediationAdvisor.execute
RemediationExecute(agent, ctx, env) ==
    LET advice == StatusAdvice(ctx, ctx.findings)
        rule_recs == advice[1] \o RootCauseAdvice(ctx.findings)
        llm_result == OllamaExecute(agent, ctx, env)
        merge == agent.use_llm /\ rule_recs # <<>> /\ llm_result.success
                 /\ llm_result.data # EmptyDict       \* "and llm_result.data"
        recommendations == IF merge
                           THEN rule_recs \o Get(llm_result.data, "recommendations", <<>>)
                           ELSE rule_recs
    IN IF merge /\ llm_result.data.t # "dict"
       THEN Raised("AttributeError")       \* data.get on a list or a number
       ELSE AgentResult(TRUE, "Generated recommendations",
                        [EmptyDict EXCEPT !.recommendations = <<recommendations>>,
                                          !.actions = <<advice[2]>>,
                                          !.next_agents = <<(<<"action_executor">>)>>],
                        "action_executor", FALSE)

\* a gate that lets actions of severity high through as well
MayExecuteHigh(agent, action) ==
    agent.auto_execute \/ RecGet(action, "severity", "") \in {"critical", "high"}

\* if self.auto_execute or action.get("severity") == "critical"
MayExecute(agent, action) ==
    agent.auto_execute \/ RecGet(action, "severity", "") = "critical"

\* the tool is invoked for every action of a known type, allowed or not
PatchCallUngated(agent, action) ==
    IF action.type \in {"scale", "resource"}
    THEN <<[tool |-> "apply_yaml_patch", action |-> action]>>
    ELSE <<>>

\* the invocations of the apply_yaml_patch tool for one proposed action:
\* _scale_service and _update_resources call it once
PatchCall(agent, action) ==
    IF MayExecute(agent, action) /\ action.type \in {"scale", "resource"}
    THEN <<[tool |-> "apply_yaml_patch", action |-> action]>>
    ELSE <<>>

RECURSIVE PatchCallsOf(_, _)
PatchCallsOf(agent, actions) ==
    IF actions = <<>> THEN <<>>
    ELSE PatchCall(agent, actions[1]) \o PatchCallsOf(agent, Tail(actions))

\* the tool invocations of ActionExecutor.execute, in order
RECURSIVE PatchCalls(_, _)
PatchCalls(agent, findings) ==
    IF findings = <<>> THEN <<>>
    ELSE (IF RecGet(findings[1], "agent", "") = "remediation_advisor"
          THEN PatchCallsOf(agent, Get(RecGet(findings[1], "data", EmptyDict),
                                       "actions", <<>>))
          ELSE <<>>)
         \o PatchCalls(agent, Tail(findings))

\* what ActionExecutor.execute records for one proposed action; an action of
\* a type other than scale and resource that is let through leaves no record
ExecuteAction(agent, action, env) ==
    IF MayExecute(agent, action)
    THEN IF env.patch.raises
         THEN IF action.type \in {"scale", "resource"}
              THEN <<[action |-> action, status |-> "failed"]>>
              ELSE <<>>
         ELSE IF action.type \in {"scale", "resource"}
              THEN <<[action |-> action, result |-> env.patch.value, status |-> "executed"]>>
              ELSE <<>>
    ELSE <<[action |-> action, status |-> "pending_approval"]>>

RECURSIVE ExecuteActions(_, _, _)
ExecuteActions(agent, actions, env) ==
    IF actions = <<>> THEN <<>>
    ELSE ExecuteAction(agent, actions[1], env) \o ExecuteActions(agent, Tail(actions), env)

\* the loop of ActionExecutor.execute over context.findings
RECURSIVE ExecutedActions(_, _, _)
ExecutedActions(agent, findings, env) ==
    IF findings = <<>> THEN <<>>
    ELSE (IF RecGet(findings[1], "agent", "") = "remediation_advisor"
          THEN ExecuteActions(agent, Get(RecGet(findings[1], "data", EmptyDict),
                                         "actions", <<>>), env)
          ELSE <<>>)
         \o ExecutedActions(agent, Tail(findings), env)

\* ActionExecutor.execute
ActionExecute(agent, ctx, env) ==
    AgentResult(TRUE, "Executed actions",
                [EmptyDict EXCEPT
                    !.executed_actions = <<ExecutedActions(agent, ctx.findings, env)>>,
                    !.terminate = <<TRUE>>],
                "", TRUE)

\* agent.execute(context), dispatched on the agent's class
Execute(agent, ctx, env) ==
    CASE agent.cls = "TriageAgent" -> TriageExecute(agent, ctx, env)
      [] agent.cls = "RootCauseAnalyzer" -> RootCauseExecute(agent, ctx, env)
      [] agent.cls = "RemediationAdvisor" -> RemediationExecute(agent, ctx, env)
      [] agent.cls = "ActionExecutor" -> ActionExecute(agent, ctx, env)
      [] OTHER -> OllamaExecute(agent, ctx, env)

\* the number of client.chat calls one execute makes, for replies that
\* request no tool call
LLMCalls(agent, ctx, env) ==
    CASE agent.cls = "TriageAgent" -> IF agent.use_llm THEN 1 ELSE 0
      [] agent.cls = "RootCauseAnalyzer" ->
            IF agent.use_llm /\ env.kg = "ok" /\ env.multi_hop # <<>> THEN 1 ELSE 0
      [] agent.cls = "RemediationAdvisor" ->
            IF agent.use_llm
               /\ StatusAdvice(ctx, ctx.findings)[1] \o RootCauseAdvice(ctx.findings) # <<>>
            THEN 1 ELSE 0
      [] agent.cls = "ActionExecutor" -> 0
      [] OTHER -> 1

(***************************************************************************)
(* The orchestrator.                                                       *)
(***************************************************************************)
\* the agents the orchestrator of the model is given, in this order: three
\* agents of run_incident's pipeline and an agent made by create_agent
Registrations ==
    <<Agent("triage", "TriageAgent", TRUE, FALSE),
      Agent("action_executor", "ActionExecutor", TRUE, FALSE),
      Agent("assistant", "OllamaAgent", TRUE, FALSE),
      Agent("root_cause_analyzer", "RootCauseAnalyzer", TRUE, FALSE)>>

AgentObjects == {Registrations[i] : i \in DOMAIN Registrations}

AgentNames == {a.name : a \in AgentObjects}

\* the lists of at most n names
Flows(n) == UNION {[1..k -> AgentNames] : k \in 0..n}

\* the flows create_flow is called with
StoredFlows == {<<>>, <<"action_executor", "triage">>}

SymptomLists == {<<"pod crash", "DOWN">>}

IncidentId(r) == IF r = 1 THEN "INC-1" ELSE "INC-2"

\* AgentContext(incident_id, service_name, namespace, symptoms)
AgentContext(incident_id, service_name, namespace, symptoms) ==
    [incident_id |-> incident_id, service_name |-> service_name,
     namespace |-> namespace, symptoms |-> symptoms,
     findings |-> <<>>, actions_taken |-> <<>>]

IdleRun ==
    [pc |-> "idle", incident_id |-> "", service_name |-> "", plan |-> <<>>, i |-> 1,
     results |-> <<>>, arg |-> 0, stopped |-> FALSE, calls |-> <<>>,
     flow_arg |-> <<>>, summary |-> <<>>]

StatusOk(restarts, cpu_usage) ==
    [raises |-> FALSE, value |-> [restarts |-> restarts, cpu_usage |-> cpu_usage]]
StatusRaises == [raises |-> TRUE, value |-> [restarts |-> 0, cpu_usage |-> 0]]
PatchOk == [raises |-> FALSE, value |-> [success |-> TRUE]]
PatchRaises == [raises |-> TRUE, value |-> [success |-> FALSE]]

Env(llm, kg, multi_hop, status, patch) ==
    [llm |-> llm, kg |-> kg, multi_hop |-> multi_hop, status |-> status, patch |-> patch]

\* what the collaborators may do during one agent execution of a workflow
WorkflowEnvs(multi_hop) ==
    {Env(LLMRaises, "none", <<>>, StatusRaises, PatchRaises),
     Env(LLMReply(ContentTriage), "ok", multi_hop, StatusOk(6, 85), PatchOk),
     Env(LLMReply(ContentActions), "none", <<>>, StatusRaises, PatchOk),
     Env(LLMReply(ContentList), "none", <<>>, StatusRaises, PatchOk),
     Env(LLMReply(ContentNumber), "none", <<>>, StatusRaises, PatchOk)}

RcaMaxHops == 3

Put(f, k, v) == [x \in (DOMAIN f) \cup {k} |-> IF x = k THEN v ELSE f[x]]

\* the orchestrator is set up (agents registered, default flow stored) before
\* its first run
Setup == \A r \in RunIds : run[r].pc = "idle"

\* AgentOrchestrator.register_agent
RegisterAgent(agent) ==
    /\ Setup
    /\ agents' = Put(agents, agent.name, agent)
    /\ UNCHANGED <<flow, execution_history, context, ctxs, run, control>>
    /\ UNCHANGED graphVars
    /\ UNCHANGED <<execution, turn>>

\* AgentOrchestrator.create_flow
CreateFlow(f) ==
    /\ Setup
    /\ flow' = <<f>>
    /\ UNCHANGED <<agents, execution_history, context, ctxs, run, control>>
    /\ UNCHANGED graphVars
    /\ UNCHANGED <<execution, turn>>

RECURSIVE SumLen(_, _)
SumLen(f, S) ==
    IF S = {} THEN 0
    ELSE LET x == CHOOSE y \in S : TRUE
         IN Len(f[x].plan) + SumLen(f, S \ {x})

Active(r) == run[r].pc \in {"loop", "awaiting"}

\* execution_plan = flow or self.flow: <<>> when self.flow does not exist
ExecutionPlan(flow_arg, stored) ==
    IF flow_arg # <<>> /\ flow_arg[1] # <<>> THEN flow_arg ELSE stored

\* execute_incident_workflow up to the loop: a fresh context replaces
\* self.context, then the plan is chosen
StartRun(r, flow_arg, symptoms) ==
    /\ control = 0
    /\ run[r].pc = "idle"
    /\ \A x \in RunIds : x < r => run[x].pc # "idle"
    /\ LET plan == ExecutionPlan(flow_arg, flow)
       IN /\ plan # <<>> => SumLen(run, RunIds) + Len(plan[1]) <= MaxSteps
          /\ context' = r
          /\ ctxs' = Put(ctxs, r, AgentContext(IncidentId(r), "A", "default", symptoms))
          /\ IF plan = <<>>
             THEN /\ run' = [run EXCEPT ![r].pc = "raised",
                                        ![r].incident_id = IncidentId(r),
                                        ![r].flow_arg = flow_arg]
                  /\ control' = 0
             ELSE /\ run' = [run EXCEPT ![r].pc = "loop",
                                        ![r].incident_id = IncidentId(r),
                                        ![r].service_name = "A",
                                        ![r].flow_arg = flow_arg,
                                        ![r].plan = plan[1]]
                  /\ control' = r
    /\ UNCHANGED <<agents, flow, execution_history>>
    /\ UNCHANGED graphVars
    /\ UNCHANGED <<execution, turn>>

AtStep(r) ==
    /\ control = r
    /\ run[r].pc = "loop"
    /\ ~run[r].stopped
    /\ run[r].i <= Len(run[r].plan)

\* the entry recorded for a name that is not registered
NotFoundEntry(agent_name) == [agent |-> agent_name, error |-> "Agent not found"]

\* the entry is recorded and the loop is left
SkipStepBreak(rec, agent_name) ==
    [rec EXCEPT !.results = Append(@, NotFoundEntry(agent_name)), !.stopped = TRUE]

\* lines 285-290: the entry is recorded and the loop continues
SkipStep(rec, agent_name) ==
    [rec EXCEPT !.results = Append(@, NotFoundEntry(agent_name)), !.i = @ + 1]

\* the loop body for a flow entry that names no registered agent
StepNotFound(r) ==
    /\ AtStep(r)
    /\ run[r].plan[run[r].i] \notin DOMAIN agents
    /\ run' = [run EXCEPT ![r] = SkipStep(@, run[r].plan[run[r].i])]
    /\ UNCHANGED <<agents, flow, execution_history, context, ctxs, control>>
    /\ UNCHANGED graphVars
    /\ UNCHANGED <<execution, turn>>

\* agent.execute(self.context) is called: the argument is the object
\* self.context names now, and the run waits
Invoke(r) ==
    /\ AtStep(r)
    /\ run[r].plan[run[r].i] \in DOMAIN agents
    /\ run' = [run EXCEPT ![r].pc = "awaiting", ![r].arg = context]
    /\ control' = 0
    /\ UNCHANGED <<agents, flow, execution_history, context, ctxs>>
    /\ UNCHANGED graphVars
    /\ UNCHANGED <<execution, turn>>

\* "actions" in result.data raises for a value that is no container
ActionsTestRaises(data) == data.t \notin {"dict", "list"}

\* the finding is attached whatever the result's success flag says
UpdateContextAlways(ctx, agent_name, result) ==
    [ctx EXCEPT
        !.findings = Append(@, [agent |-> agent_name, message |-> result.message,
                                data |-> result.data])]

\* lines 299-308: the finding and the actions of a successful result
UpdateContext(ctx, agent_name, result) ==
    IF result.success
    THEN [ctx EXCEPT
            !.findings = Append(@, [agent |-> agent_name, message |-> result.message,
                                    data |-> result.data]),
            !.actions_taken = IF ~ActionsTestRaises(result.data)
                                 /\ result.data.t = "dict" /\ HasKey(result.data, "actions")
                              THEN @ \o result.data.actions[1]
                              ELSE @]
    ELSE ctx

\* the entry of the per-step results for a result
ResultEntry(agent_name, result) ==
    [agent |-> agent_name, success |-> result.success, message |-> result.message,
     data |-> result.data]

\* the execution-history entry for a result
HistoryEntry(agent_name, result) == [agent |-> agent_name, result |-> result]

\* the terminate flag is ignored
TerminatesNever(result) == FALSE

\* "if result.terminate: break"
Terminates(result) == result.terminate

\* the agent's execute returns (or raises) and the loop body runs to its end
Returns(r, env) ==
    /\ control = 0
    /\ run[r].pc = "awaiting"
    /\ LET agent_name == run[r].plan[run[r].i]
           ctx == ctxs[run[r].arg]
           result == Execute(agents[agent_name], ctx, env)
           call == [agent |-> agent_name, ctx |-> run[r].arg, result |-> result]
       IN IF result.raised
          THEN /\ run' = [run EXCEPT ![r].pc = "raised", ![r].calls = Append(@, call)]
               /\ control' = 0
               /\ UNCHANGED <<ctxs, execution_history>>
          ELSE /\ ctxs' = [ctxs EXCEPT ![context] = UpdateContext(@, agent_name, result)]
               /\ IF result.success /\ ActionsTestRaises(result.data)
                  THEN /\ run' = [run EXCEPT ![r].pc = "raised",
                                             ![r].calls = Append(@, call)]
                       /\ control' = 0
                       /\ UNCHANGED execution_history
                  ELSE /\ run' = [run EXCEPT
                                     ![r].pc = "loop",
                                     ![r].calls = Append(@, call),
                                     ![r].results = Append(@, ResultEntry(agent_name, result)),
                                     ![r].stopped = Terminates(result),
                                     ![r].i = @ + 1]
                       /\ execution_history' =
                              Append(execution_history, HistoryEntry(agent_name, result))
                       /\ control' = r
    /\ UNCHANGED <<agents, flow, context>>
    /\ UNCHANGED graphVars
    /\ UNCHANGED <<execution, turn>>

\* the awaited execute of run r completes, in one of the environments of
\* the workflow
Return(r) ==
    /\ run[r].pc = "awaiting"
    /\ \E multi_hop \in MultiHopAnalysis(graph, ctxs[run[r].arg].service_name,
                                         RcaMaxHops, Scale \div 2) :
          \E env \in WorkflowEnvs(multi_hop) : Returns(r, env)

\* the summary execute_incident_workflow returns; its context lists are the
\* lists of the object self.context names at that moment
Summary(r) ==
    [incident_id |-> run[r].incident_id, service |-> run[r].service_name,
     status |-> "completed", results |-> run[r].results, context |-> context]

Finish(r) ==
    /\ control = r
    /\ run[r].pc = "loop"
    /\ run[r].stopped \/ run[r].i > Len(run[r].plan)
    /\ run' = [run EXCEPT ![r].pc = "done", ![r].summary = <<Summary(r)>>]
    /\ control' = 0
    /\ UNCHANGED <<agents, flow, execution_history, context, ctxs>>
    /\ UNCHANGED graphVars
    /\ UNCHANGED <<execution, turn>>

FlowArgs == {<<>>} \cup {<<f>> : f \in Flows(MaxFlowLen)}

\* the scenario graph of the end-to-end example: A -> B -> C, all unhealthy
ScenarioGraph ==
    [services |-> [n \in NodeIds |-> [status |-> "unhealthy"]],
     edges |-> {Edge(<<"A", "default">>, <<"B", "default">>, FALSE),
                Edge(<<"B", "default">>, <<"C", "default">>, TRUE)}]

Init ==
    /\ agents = <<>>
    /\ flow = <<>>
    /\ execution_history = <<>>
    /\ context = 0
    /\ ctxs = <<>>
    /\ run = [r \in RunIds |-> IdleRun]
    /\ control = 0
    /\ execution = <<>>
    /\ turn = <<>>
    /\ graph = ScenarioGraph
    /\ query = <<>>
    /\ records = <<>>
    /\ last_write = <<>>
    /\ declared_metrics = {}
    /\ earlier = <<>>
    /\ traversal = <<>>
    /\ topology = <<>>

\* runs of one orchestrator, one after the other
Next ==
    \/ \E i \in DOMAIN Registrations :
          Cardinality(DOMAIN agents) = i - 1 /\ RegisterAgent(Registrations[i])
    \/ \E f \in StoredFlows : CreateFlow(f)
    \/ \E r \in RunIds, fa \in FlowArgs, s \in SymptomLists :
          (\A x \in RunIds : ~Active(x)) /\ StartRun(r, fa, s)
    \/ \E r \in RunIds : StepNotFound(r)
    \/ \E r \in RunIds : Invoke(r)
    \/ \E r \in RunIds : Return(r)
    \/ \E r \in RunIds : Finish(r)

Spec == Init /\ [][Next]_vars

\* runs that overlap: a second run may start while the first one waits
NextConc ==
    \/ \E i \in DOMAIN Registrations :
          Cardinality(DOMAIN agents) = i - 1 /\ RegisterAgent(Registrations[i])
    \/ \E f \in StoredFlows : CreateFlow(f)
    \/ \E r \in RunIds, fa \in FlowArgs, s \in SymptomLists : StartRun(r, fa, s)
    \/ \E r \in RunIds : StepNotFound(r)
    \/ \E r \in RunIds : Invoke(r)
    \/ \E r \in RunIds : Return(r)
    \/ \E r \in RunIds : Finish(r)

SpecConc == Init /\ [][NextConc]_vars

(***************************************************************************)
(* The multi-hop query on its own: the graph is the input.                 *)
(***************************************************************************)
MaxEdges == 3       \* most DEPENDS_ON edges of an input graph

\* every edge an input graph may hold: no self-loops, with or without metrics
CandidateEdges ==
    {e \in {Edge(s, t, m) : s \in NodeIds, t \in NodeIds, m \in BOOLEAN} :
        e.source # e.target}

\* at most one DEPENDS_ON edge per ordered pair, as MERGE leaves it
InputGraphs ==
    {[services |-> [n \in NodeIds |-> [status |-> st[n]]], edges |-> es] :
        st \in [NodeIds -> Statuses],
        es \in {x \in SUBSET CandidateEdges :
                  /\ Cardinality(x) <= MaxEdges
                  /\ \A e1 \in x, e2 \in x :
                        (e1.source = e2.source /\ e1.target = e2.target) => e1 = e2}}

StartServices == {"A"}

\* min_impact_score values: 0, the default 0.5 and the scores 0.72, 0.81, 0.9
MinScores ==
    {0, Scale \div 2, (72 * Scale) \div 100, (81 * Scale) \div 100, (9 * Scale) \div 10}

InitGraph ==
    /\ agents = <<>>
    /\ flow = <<>>
    /\ execution_history = <<>>
    /\ context = 0
    /\ ctxs = <<>>
    /\ run = [r \in RunIds |-> IdleRun]
    /\ control = 0
    /\ execution = <<>>
    /\ turn = <<>>
    /\ graph \in InputGraphs
    /\ query = <<>>
    /\ records = <<>>
    /\ last_write = <<>>
    /\ declared_metrics = {}
    /\ earlier = <<>>
    /\ traversal = <<>>
    /\ topology = <<>>

\* a caller runs multi_hop_analysis(start_service, max_hops, min_impact_score)
MultiHopQuery(start_service, max_hops, min_score) ==
    /\ records' \in MultiHopAnalysis(graph, start_service, max_hops, min_score)
    /\ query' = <<[start_service |-> start_service, max_hops |-> max_hops,
                   min_impact_score |-> min_score]>>
    /\ earlier' = <<>>
    /\ UNCHANGED <<graph, last_write, declared_metrics, traversal, topology>>
    /\ UNCHANGED orchVars

NextGraph ==
    \E s \in StartServices, h \in 1..MaxHops, m \in MinScores : MultiHopQuery(s, h, m)

SpecGraph == InitGraph /\ [][NextGraph]_vars

\* the caller runs multi_hop_analysis once more with the parameters of its
\* last call, on the graph as that call saw it
RepeatQuery ==
    /\ query # <<>>
    /\ records' \in MultiHopAnalysis(graph, query[1].start_service, query[1].max_hops,
                                     query[1].min_impact_score)
    /\ earlier' = <<records>>
    /\ UNCHANGED <<graph, query, last_write, declared_metrics, traversal, topology>>
    /\ UNCHANGED orchVars

NextRepeat ==
    \/ NextGraph
    \/ RepeatQuery

SpecRepeat == InitGraph /\ [][NextRepeat]_vars

(***************************************************************************)
(* The pipeline of run_incident: the root cause analyzer, the remediation  *)
(* advisor and the action executor registered with one orchestrator, and   *)
(* runs of flows over them.                                                *)
(***************************************************************************)
PipelineRegistrations ==
    <<Agent("root_cause_analyzer", "RootCauseAnalyzer", FALSE, FALSE),
      Agent("remediation_advisor", "RemediationAdvisor", TRUE, FALSE),
      Agent("action_executor", "ActionExecutor", TRUE, TRUE)>>

PipelineFlows == {<<"root_cause_analyzer", "remediation_advisor">>,
                  <<"remediation_advisor", "root_cause_analyzer">>,
                  <<"root_cause_analyzer", "root_cause_analyzer">>,
                  <<"remediation_advisor", "action_executor">>}

\* what the status tool reports: restart counts and CPU usages at and
\* above the advisor's thresholds
PipelineStatuses ==
    {StatusOk(restarts, cpu_usage) :
        restarts \in {RestartThreshold, RestartThreshold + 1},
        cpu_usage \in {CpuThreshold, CpuThreshold + 1}}
    \cup {StatusRaises}

PipelineEnvs(multi_hop) ==
    {Env(llm, kg, IF kg = "ok" THEN multi_hop ELSE <<>>, status, PatchOk) :
        llm \in {LLMRaises, LLMReply(ContentActions)},
        kg \in {"ok", "none"},
        status \in PipelineStatuses}

\* the awaited execute of run r completes, in one of the environments of
\* the pipeline
PipelineReturn(r) ==
    /\ run[r].pc = "awaiting"
    /\ \E multi_hop \in MultiHopAnalysis(graph, ctxs[run[r].arg].service_name,
                                         RcaMaxHops, Scale \div 2) :
          \E env \in PipelineEnvs(multi_hop) : Returns(r, env)

NextPipeline ==
    \/ \E i \in DOMAIN PipelineRegistrations :
          Cardinality(DOMAIN agents) = i - 1 /\ RegisterAgent(PipelineRegistrations[i])
    \/ \E r \in RunIds, f \in PipelineFlows, s \in SymptomLists :
          (\A x \in RunIds : ~Active(x)) /\ StartRun(r, <<f>>, s)
    \/ \E r \in RunIds : StepNotFound(r)
    \/ \E r \in RunIds : Invoke(r)
    \/ \E r \in RunIds : PipelineReturn(r)
    \/ \E r \in RunIds : Finish(r)

SpecPipeline == Init /\ [][NextPipeline]_vars

(***************************************************************************)
(* Agents called directly: a caller builds a context and awaits the        *)
(* agent's execute, once in a behaviour.                                   *)
(***************************************************************************)
\* what execute was given, what it returned and the patch tool invocations
\* it made
Execution(agent, ctx, env, patch_calls) ==
    [agent |-> agent, context |-> ctx, env |-> env,
     result |-> Execute(agent, ctx, env), patch_calls |-> patch_calls,
     llm_calls |-> LLMCalls(agent, ctx, env)]

CallerContext(findings) ==
    [AgentContext("INC-1", "A", "default", <<"pod crash", "DOWN">>)
        EXCEPT !.findings = findings]

\* the environments of a RootCauseAnalyzer.execute
RootCauseEnvs(multi_hop) ==
    {Env(llm, kg, IF kg = "ok" THEN multi_hop ELSE <<>>, status, PatchOk) :
        llm \in {LLMRaises, LLMReply(ContentText)},
        kg \in {"none", "deps_raise", "multi_hop_raises", "ok"},
        status \in {StatusOk(RestartThreshold + 1, CpuThreshold), StatusRaises}}

\* RootCauseAnalyzer(knowledge_graph, use_llm=use_llm).execute(context)
CallRootCauseAnalyzer(use_llm, env) ==
    /\ execution = <<>>
    /\ execution' = <<Execution(Agent("root_cause_analyzer", "RootCauseAnalyzer",
                                       use_llm, FALSE),
                                 CallerContext(<<>>), env, <<>>)>>
    /\ UNCHANGED <<agents, flow, execution_history, context, ctxs, run, control, turn>>
    /\ UNCHANGED graphVars

\* the actions a finding may propose: of the two types the executor knows
\* and of another one, without a severity or with one
ActionsWithoutSeverity ==
    {[type |-> ty, action |-> "apply", resource |-> "A", namespace |-> "default"] :
        ty \in {"scale", "resource", "restart"}}

ProposedActions ==
    ActionsWithoutSeverity
    \cup {Put(a, "severity", sev) : a \in ActionsWithoutSeverity,
                                    sev \in {"high", "critical"}}

\* the findings of the context: one step's wrapper holding at most
\* MaxActions proposed actions, left by the advisor or by another agent
MaxActions == 2

ProposedLists == UNION {[1..n -> ProposedActions] : n \in 0..MaxActions}

ExecutorFindings ==
    {<<[agent |-> name, message |-> "Generated recommendations",
        data |-> [EmptyDict EXCEPT !.actions = <<actions>>]]>> :
        name \in {"remediation_advisor", "assistant"}, actions \in ProposedLists}

\* ActionExecutor(auto_execute=auto_execute).execute(context)
CallActionExecutor(auto_execute, findings, env) ==
    LET agent == Agent("action_executor", "ActionExecutor", TRUE, auto_execute)
    IN /\ execution = <<>>
       /\ execution' = <<Execution(agent, CallerContext(findings), env,
                                    PatchCalls(agent, findings))>>
       /\ UNCHANGED <<agents, flow, execution_history, context, ctxs, run, control, turn>>
       /\ UNCHANGED graphVars

\* the symptom tags a caller passes: a multi-word tag, bare keywords of each
\* rule (one in capitals) and a tag no rule knows
Tags == {"pod crash", "crash", "DOWN", "slow", "memory", "warning", "noise"}

MaxSymptoms == 2

TriageSymptoms == UNION {[1..n -> Tags] : n \in 0..MaxSymptoms}

\* what the reasoning service may do with a triage request
TriageReplies ==
    {LLMRaises}
    \cup {LLMReply(c) : c \in {ContentTriage, ContentTriageFree, ContentText, ContentList}}

\* TriageAgent(use_llm=use_llm).execute(context)
CallTriage(use_llm, symptoms, env) ==
    /\ execution = <<>>
    /\ execution' = <<Execution(Agent("triage", "TriageAgent", use_llm, FALSE),
                                 AgentContext("INC-1", "A", "default", symptoms),
                                 env, <<>>)>>
    /\ UNCHANGED <<agents, flow, execution_history, context, ctxs, run, control, turn>>
    /\ UNCHANGED graphVars

\* the context of a caller that holds a status reading as a finding
AdvisorContext(status) ==
    CallerContext(<<[agent |-> "monitor", message |-> "Status read",
                     type |-> "service_status", data |-> status.value]>>)

\* a caller awaits RemediationAdvisor(use_llm=True).execute(context), files
\* the result in the context as the orchestrator does, and awaits
\* ActionExecutor(auto_execute=auto_execute).execute(context)
CallAdvisorThenExecutor(auto_execute, status, env) ==
    LET advisor == Agent("remediation_advisor", "RemediationAdvisor", TRUE, FALSE)
        advised == Execute(advisor, AdvisorContext(status), env)
        ctx == UpdateContext(AdvisorContext(status), "remediation_advisor", advised)
        executor == Agent("action_executor", "ActionExecutor", TRUE, auto_execute)
    IN /\ execution = <<>>
       /\ ~advised.raised
       /\ execution' = <<Put(Execution(executor, ctx, env,
                                        PatchCalls(executor, ctx.findings)),
                              "advised", advised)>>
       /\ UNCHANGED <<agents, flow, execution_history, context, ctxs, run, control, turn>>
       /\ UNCHANGED graphVars

NextAgents ==
    \/ \E auto_execute \in BOOLEAN, status \in PipelineStatuses \ {StatusRaises} :
          \E env \in {Env(llm, "none", <<>>, status, patch) :
                         llm \in {LLMRaises, LLMReply(ContentAdvice)},
                         patch \in {PatchOk, PatchRaises}} :
             CallAdvisorThenExecutor(auto_execute, status, env)
    \/ \E symptoms \in TriageSymptoms :
          \/ \E llm \in TriageReplies :
                CallTriage(TRUE, symptoms, Env(llm, "none", <<>>, StatusRaises, PatchOk))
          \/ CallTriage(FALSE, symptoms, Env(LLMRaises, "none", <<>>, StatusRaises, PatchOk))
    \/ \E use_llm \in BOOLEAN :
          \E multi_hop \in MultiHopAnalysis(graph, "A", RcaMaxHops, Scale \div 2) :
             \E env \in RootCauseEnvs(multi_hop) : CallRootCauseAnalyzer(use_llm, env)
    \/ \E auto_execute \in BOOLEAN, findings \in ExecutorFindings :
          \E env \in {Env(LLMRaises, "none", <<>>, StatusRaises, patch) :
                         patch \in {PatchOk, PatchRaises}} :
             CallActionExecutor(auto_execute, findings, env)

SpecAgents == Init /\ [][NextAgents]_vars

(***************************************************************************)
(* One execute followed step by step: the assignments to agent.state, the  *)
(* calls of the reasoning service, the tool calls it requests and the      *)
(* conversation that is sent back to it.  A step of the model runs from    *)
(* one call of the reasoning service or of a tool to the next.             *)
(***************************************************************************)
\* the names of the tools an agent is constructed with
ToolsOf(agent) ==
    CASE agent.cls = "TriageAgent" -> {}
      [] agent.cls = "RootCauseAnalyzer" ->
            {"get_service_status", "query_metrics", "get_pod_logs"}
      [] agent.cls = "RemediationAdvisor" -> {"generate_yaml_patch"}
      [] agent.cls = "ActionExecutor" -> {"apply_yaml_patch", "restart_deployment"}
      [] OTHER -> {"get_service_status", "query_metrics"}

\* the classes whose execute wraps OllamaAgent.execute between its own two
\* assignments to self.state
WrapperClasses == {"TriageAgent", "RootCauseAnalyzer", "RemediationAdvisor"}

\* a requested tool call: the tool's name and whether its arguments are
\* text that json.loads accepts
ToolCall(name, arguments_valid) == [name |-> name, arguments_valid |-> arguments_valid]

MaxToolCalls == 2

RequestedCalls ==
    {ToolCall(name, valid) :
        name \in {"get_service_status", "query_metrics", "no_such_tool"},
        valid \in BOOLEAN}

\* message.tool_calls of a reply that requests tool calls
ToolCallLists == UNION {[1..n -> RequestedCalls] : n \in 1..MaxToolCalls}

\* results[tool_name] = result on a dict held in insertion order: a key that
\* is there keeps its place and takes the new value
RECURSIVE DictSet(_, _, _)
DictSet(d, k, v) ==
    IF d = <<>> THEN <<[tool |-> k, result |-> v]>>
    ELSE IF d[1].tool = k THEN <<[tool |-> k, result |-> v]>> \o Tail(d)
    ELSE <<d[1]>> \o DictSet(Tail(d), k, v)

\* the messages appended after _execute_tool_calls: the assistant's message
\* and one tool message per item of the results dict
RECURSIVE ToolMessages(_)
ToolMessages(tool_results) ==
    IF tool_results = <<>> THEN <<>>
    ELSE <<[role |-> "tool", tool |-> tool_results[1].tool,
            result |-> tool_results[1].result]>>
         \o ToolMessages(Tail(tool_results))

\* the agents whose execute is followed
TurnAgents ==
    {Agent("assistant", "OllamaAgent", TRUE, FALSE),
     Agent("triage", "TriageAgent", TRUE, FALSE),
     Agent("triage", "TriageAgent", FALSE, FALSE),
     Agent("root_cause_analyzer", "RootCauseAnalyzer", TRUE, FALSE)}

\* agent.state when execute is entered: idle after construction, else what
\* the execute before left
PreviousStates == {"idle", "completed", "error"}

\* execute has come to its return: OllamaAgent.execute ends in COMPLETED, or
\* in ERROR when failed, and a wrapping execute then sets COMPLETED and
\* builds its own result
Ends(t, failed, final) ==
    LET inner == Append(t.states, IF failed THEN "error" ELSE "completed")
        env == [t.env EXCEPT !.llm = IF failed THEN LLMRaises ELSE final]
    IN [t EXCEPT !.pc = "done",
                 !.states = IF t.agent.cls \in WrapperClasses
                            THEN Append(inner, "completed") ELSE inner,
                 !.failed = failed,
                 !.result = <<Execute(t.agent, t.context, env)>>]

\* execute is entered and runs to its first call of the reasoning service,
\* or to its end when it makes none
BeginExecute(agent, previous, env) ==
    LET ctx == CallerContext(<<>>)
        t == [agent |-> agent, context |-> ctx, env |-> env, pc |-> "chat",
              states |-> <<previous, "thinking">>,
              messages |-> <<[role |-> "system"], [role |-> "user"]>>,
              requested |-> <<>>, todo |-> <<>>, tool_results |-> <<>>,
              executed |-> <<>>, llm_calls |-> 0, failed |-> FALSE, result |-> <<>>]
    IN /\ turn = <<>>
       /\ turn' = IF agent.cls \in WrapperClasses
                  THEN IF LLMCalls(agent, ctx, env) > 0
                       THEN <<[t EXCEPT !.states = Append(@, "thinking")]>>
                       ELSE <<[t EXCEPT !.pc = "done",
                                        !.states = Append(@, "completed"),
                                        !.result = <<Execute(agent, ctx, env)>>]>>
                  ELSE <<t>>
       /\ UNCHANGED <<agents, flow, execution_history, context, ctxs, run, control,
                      execution>>
       /\ UNCHANGED graphVars

\* the first client.chat returns: it raised, or its message requests the
\* tool calls of tool_calls (none when <<>>)
Chat(llm, tool_calls) ==
    /\ turn # <<>>
    /\ turn[1].pc = "chat"
    /\ tool_calls # <<>> => (~llm.raises /\ ToolsOf(turn[1].agent) # {})
    /\ LET t == [turn[1] EXCEPT !.llm_calls = @ + 1]
       IN turn' = IF llm.raises THEN <<Ends(t, TRUE, llm)>>
                  ELSE IF tool_calls # <<>>
                  THEN <<[t EXCEPT !.pc = "tools",
                                   !.states = Append(@, "executing"),
                                   !.requested = tool_calls,
                                   !.todo = tool_calls]>>
                  ELSE <<Ends(t, FALSE, llm)>>
    /\ UNCHANGED <<agents, flow, execution_history, context, ctxs, run, control,
                   execution>>
    /\ UNCHANGED graphVars

\* one round of the loop of _execute_tool_calls: the arguments are parsed,
\* the tool is looked up and run, and its result (the number of the call
\* that produced it) is stored under the tool's name; after the last round
\* the conversation is extended
ExecuteToolCall(raises) ==
    /\ turn # <<>>
    /\ turn[1].pc = "tools"
    /\ LET t == turn[1]
           call == t.todo[1]
           n == Len(t.requested) - Len(t.todo) + 1
           found == call.name \in ToolsOf(t.agent)
           tool_results == IF found THEN DictSet(t.tool_results, call.name, [value |-> n])
                           ELSE DictSet(t.tool_results, call.name,
                                        [error |-> "Tool not found"])
           ran == IF found
                  THEN Append(t.executed, [tool |-> call.name, call |-> n, raised |-> raises])
                  ELSE t.executed
       IN /\ raises => (call.arguments_valid /\ found)
          /\ turn' =
                IF ~call.arguments_valid THEN <<Ends(t, TRUE, LLMRaises)>>
                ELSE IF raises THEN <<Ends([t EXCEPT !.executed = ran], TRUE, LLMRaises)>>
                ELSE IF Len(t.todo) > 1
                THEN <<[t EXCEPT !.todo = Tail(@), !.tool_results = tool_results,
                                 !.executed = ran]>>
                ELSE <<[t EXCEPT !.pc = "followup", !.todo = <<>>,
                                 !.tool_results = tool_results, !.executed = ran,
                                 !.messages = Append(@, [role |-> "assistant"])
                                              \o ToolMessages(tool_results)]>>
    /\ UNCHANGED <<agents, flow, execution_history, context, ctxs, run, control,
                   execution>>
    /\ UNCHANGED graphVars

\* the second client.chat, with the tool results, returns or raises
FollowUp(llm) ==
    /\ turn # <<>>
    /\ turn[1].pc = "followup"
    /\ turn' = <<Ends([turn[1] EXCEPT !.llm_calls = @ + 1], llm.raises, llm)>>
    /\ UNCHANGED <<agents, flow, execution_history, context, ctxs, run, control,
                   execution>>
    /\ UNCHANGED graphVars

\* the environments of a followed execute: the store is connected or not
TurnEnvs(multi_hop) ==
    {Env(LLMRaises, "ok", multi_hop, StatusRaises, PatchOk),
     Env(LLMRaises, "none", <<>>, StatusRaises, PatchOk)}

TurnReplies == {LLMRaises, LLMReply(ContentText), LLMReply(ContentTriage)}

NextTurn ==
    \/ \E agent \in TurnAgents, previous \in PreviousStates :
          \E multi_hop \in MultiHopAnalysis(graph, "A", RcaMaxHops, Scale \div 2) :
             \E env \in TurnEnvs(multi_hop) : BeginExecute(agent, previous, env)
    \/ \E llm \in TurnReplies, tool_calls \in {<<>>} \cup ToolCallLists :
          Chat(llm, tool_calls)
    \/ \E raises \in BOOLEAN : ExecuteToolCall(raises)
    \/ \E llm \in TurnReplies : FollowUp(llm)

SpecTurn == Init /\ [][NextTurn]_vars

(***************************************************************************)
(* The evaluation of the multi_hop_analysis query, hop by hop: the         *)
(* variable-length pattern is expanded one relationship at a time from the *)
(* paths found so far, up to max_hops relationships.                       *)
(***************************************************************************)
Traversing == traversal # <<>>

\* session.run hands the query to the database: the paths of one hop
BeginTraversal(start_service, max_hops, min_score) ==
    /\ ~Traversing
    /\ query = <<>>
    /\ traversal' = <<[start_service |-> start_service, max_hops |-> max_hops,
                       min_impact_score |-> min_score, hops |-> 1,
                       frontier |-> PathsOfLength(graph, start_service, 1),
                       matched |-> PathsOfLength(graph, start_service, 1)]>>
    /\ UNCHANGED <<graph, query, records, last_write, declared_metrics, earlier, topology>>
    /\ UNCHANGED orchVars

\* expansion goes on while there is a path left to extend
CanExpandWhileFrontier(t) == t.frontier # {}

\* *1..$max_hops: a path is extended while it has fewer than max_hops
\* relationships
CanExpand(t) == t.hops < t.max_hops /\ t.frontier # {}

\* one more hop from every path of the current length
Expand ==
    /\ Traversing
    /\ CanExpand(traversal[1])
    /\ LET longer == UNION {ExtendPath(graph, p) : p \in traversal[1].frontier}
       IN traversal' = <<[traversal[1] EXCEPT !.hops = @ + 1,
                                              !.frontier = longer,
                                              !.matched = @ \cup longer]>>
    /\ UNCHANGED <<graph, query, records, last_write, declared_metrics, earlier, topology>>
    /\ UNCHANGED orchVars

\* the rows are filtered, ordered and returned to the caller
EndTraversal ==
    /\ Traversing
    /\ ~CanExpand(traversal[1])
    /\ LET t == traversal[1]
           rows == {PathRecord(graph, p) : p \in {q \in t.matched :
                       /\ NoHealthyNode(graph, q)
                       /\ ImpactScore(q) >= t.min_impact_score}}
       IN /\ records' \in Orderings(rows)
          /\ query' = <<[start_service |-> t.start_service, max_hops |-> t.max_hops,
                         min_impact_score |-> t.min_impact_score]>>
    /\ traversal' = <<>>
    /\ UNCHANGED <<graph, last_write, declared_metrics, earlier, topology>>
    /\ UNCHANGED orchVars

NextTraverse ==
    \/ \E s \in StartServices, h \in 1..MaxHops : BeginTraversal(s, h, Scale \div 2)
    \/ Expand
    \/ EndTraversal

\* the database goes on evaluating a query it was handed
SpecTraverse ==
    InitGraph /\ [][NextTraverse]_vars /\ WF_vars(Expand) /\ WF_vars(EndTraversal)

(***************************************************************************)
(* The write operations of the store.  A graph built by them holds the     *)
(* services that were added (graph.services is a function on their         *)
(* (name, namespace) keys) and the DEPENDS_ON relationships between them.  *)
(***************************************************************************)
DependencyTypes == {"calls", "uses"}

\* the dataclasses Service and Dependency; metrics is TRUE when the caller
\* passes metric annotations, FALSE when it passes None
Service(name, namespace, status) ==
    [name |-> name, namespace |-> namespace, status |-> status]

Dependency(source, target, dependency_type, metrics) ==
    [source |-> source, target |-> target,
     dependency_type |-> dependency_type, metrics |-> metrics]

EmptyGraph == [services |-> <<>>, edges |-> {}]

\* MERGE (s:Service {name, namespace}) SET s.status = $status, ...
MergeService(g, service) ==
    [g EXCEPT !.services =
        Put(@, <<service.name, service.namespace>>, [status |-> service.status])]

\* MATCH (n:Service {name: $name}): the nodes of that name, in any namespace
NodesNamed(g, name) == {n \in DOMAIN g.services : n[1] = name}

\* a relationship is created for every pair whatever is there already
MergeEdgeCreate(edges, s, t, dependency_type) ==
    edges \cup {[source |-> s, target |-> t, metrics |-> FALSE,
                 dependency_type |-> dependency_type]}

\* MERGE (source)-[r:DEPENDS_ON]->(target) SET r.dependency_type = ..., ...:
\* the relationship between the pair is created if there is none, and its
\* listed properties are set; r.metrics is not among them
MergeEdge(edges, s, t, dependency_type) ==
    LET old == {e \in edges : e.source = s /\ e.target = t}
    IN IF old = {}
       THEN edges \cup {[source |-> s, target |-> t, metrics |-> FALSE,
                         dependency_type |-> dependency_type]}
       ELSE (edges \ old) \cup {[e EXCEPT !.dependency_type = dependency_type] : e \in old}

\* the MERGE runs once per row of the two MATCH clauses
RECURSIVE MergeEdges(_, _, _)
MergeEdges(edges, pairs, dependency_type) ==
    IF pairs = {} THEN edges
    ELSE LET p == CHOOSE x \in pairs : TRUE
         IN MergeEdges(MergeEdge(edges, p[1], p[2], dependency_type),
                       pairs \ {p}, dependency_type)

\* the rows of MATCH (source {name: $source}) MATCH (target {name: $target})
MatchedPairs(g, dependency) ==
    NodesNamed(g, dependency.source) \X NodesNamed(g, dependency.target)

\* the graph after the query of add_dependency
MergeDependency(g, dependency) ==
    [g EXCEPT !.edges =
        MergeEdges(@, MatchedPairs(g, dependency), dependency.dependency_type)]

\* the graph after the query of update_service_status
SetStatus(g, name, namespace, status) ==
    IF <<name, namespace>> \in DOMAIN g.services
    THEN [g EXCEPT !.services[<<name, namespace>>].status = status]
    ELSE g

\* a write call on the store: the method and its argument
NoService == Service("", "", "")
NoDependency == Dependency("", "", "", FALSE)

AddServiceCall(service) ==
    [op |-> "add_service", service |-> service, dependency |-> NoDependency]

AddDependencyCall(dependency) ==
    [op |-> "add_dependency", service |-> NoService, dependency |-> dependency]

UpdateServiceStatusCall(name, namespace, status) ==
    [op |-> "update_service_status", service |-> Service(name, namespace, status),
     dependency |-> NoDependency]

\* the graph after a write call whose query ran
ApplyWrite(g, call) ==
    CASE call.op = "add_service" -> MergeService(g, call.service)
      [] call.op = "add_dependency" -> MergeDependency(g, call.dependency)
      [] OTHER -> SetStatus(g, call.service.name, call.service.namespace,
                            call.service.status)

\* what the caller of a write gets back; matched tells whether the MATCH
\* clauses of the query found a node (both endpoints, for add_dependency),
\* existed whether the node or relationship the query names was there
\* before the call
WriteReturn(call, returned, matched, existed) ==
    [call |-> call, returned |-> returned, matched |-> matched, existed |-> existed]

\* a write discards what an earlier read returned
Forget ==
    /\ query' = <<>>
    /\ records' = <<>>
    /\ earlier' = <<>>
    /\ UNCHANGED <<traversal, topology>>

\* KnowledgeGraph.add_service: True unless session.run raised
AddService(service, raises) ==
    /\ graph' = IF raises THEN graph ELSE MergeService(graph, service)
    /\ last_write' = <<WriteReturn(AddServiceCall(service), ~raises, TRUE,
                          <<service.name, service.namespace>> \in DOMAIN graph.services)>>
    /\ UNCHANGED declared_metrics
    /\ Forget
    /\ UNCHANGED orchVars

\* KnowledgeGraph.add_dependency: True unless session.run raised; a MATCH
\* that finds no node raises nothing
AddDependency(dependency, raises) ==
    LET pairs == MatchedPairs(graph, dependency)
    IN /\ graph' = IF raises THEN graph ELSE MergeDependency(graph, dependency)
       /\ last_write' = <<WriteReturn(AddDependencyCall(dependency), ~raises, pairs # {},
                             \E e \in graph.edges : <<e.source, e.target>> \in pairs)>>
       /\ declared_metrics' =
             IF raises THEN declared_metrics
             ELSE IF dependency.metrics THEN declared_metrics \cup pairs
             ELSE declared_metrics \ pairs
       /\ Forget
       /\ UNCHANGED orchVars

\* KnowledgeGraph.update_service_status, called without metrics
UpdateServiceStatus(name, namespace, status, raises) ==
    /\ graph' = IF raises THEN graph ELSE SetStatus(graph, name, namespace, status)
    /\ last_write' = <<WriteReturn(UpdateServiceStatusCall(name, namespace, status), ~raises,
                          <<name, namespace>> \in DOMAIN graph.services,
                          <<name, namespace>> \in DOMAIN graph.services)>>
    /\ UNCHANGED declared_metrics
    /\ Forget
    /\ UNCHANGED orchVars

\* the inputs of the writes
Services == {Service(n, "default", st) : n \in Names, st \in Statuses}

DependencyPairs == {<<"A", "B">>, <<"B", "C">>}

Dependencies ==
    {Dependency(p[1], p[2], ty, m) : p \in DependencyPairs, ty \in DependencyTypes,
                                     m \in BOOLEAN}

WriteCalls ==
    {AddServiceCall(sv) : sv \in Services}
    \cup {AddDependencyCall(d) : d \in Dependencies}
    \cup {UpdateServiceStatusCall(sv.name, sv.namespace, sv.status) : sv \in Services}

InitStore ==
    /\ agents = <<>>
    /\ flow = <<>>
    /\ execution_history = <<>>
    /\ context = 0
    /\ ctxs = <<>>
    /\ run = [r \in RunIds |-> IdleRun]
    /\ control = 0
    /\ execution = <<>>
    /\ turn = <<>>
    /\ graph = EmptyGraph
    /\ query = <<>>
    /\ records = <<>>
    /\ last_write = <<>>
    /\ declared_metrics = {}
    /\ earlier = <<>>
    /\ traversal = <<>>
    /\ topology = <<>>

\* callers that write to the store and ask it for the root causes of A
NextStore ==
    \/ \E sv \in Services, raises \in BOOLEAN : AddService(sv, raises)
    \/ \E d \in Dependencies, raises \in BOOLEAN : AddDependency(d, raises)
    \/ \E sv \in Services, raises \in BOOLEAN :
          UpdateServiceStatus(sv.name, sv.namespace, sv.status, raises)
    \/ \E s \in StartServices : MultiHopQuery(s, RcaMaxHops, Scale \div 2)

SpecStore == InitStore /\ [][NextStore]_vars

(***************************************************************************)
(* The topology listing.  The store holds services of two namespaces; a    *)
(* namespace argument is <<>> for None and <<ns>> for the string ns.       *)
(***************************************************************************)
TopologyNodes ==
    {<<"A", "default">>, <<"B", "default">>, <<"B", "prod">>, <<"C", "prod">>}

TopologyEdges ==
    {[source |-> p[1], target |-> p[2], metrics |-> FALSE, dependency_type |-> "calls"] :
        p \in {q \in TopologyNodes \X TopologyNodes : q[1] # q[2]}}

TopologyGraphs ==
    {[services |-> [n \in TopologyNodes |-> [status |-> "healthy"]], edges |-> es] :
        es \in {x \in SUBSET TopologyEdges : Cardinality(x) <= MaxEdges}}

\* the namespaces a caller asks for: none, the two of the store and one
\* that holds no service
NamespaceArgs == {<<>>, <<"default">>, <<"prod">>, <<"staging">>}

\* MATCH (s:Service {namespace: $namespace}) when a namespace is given,
\* MATCH (s:Service) otherwise
ServiceRows(g, namespace) ==
    {[name |-> n[1], namespace |-> n[2], status |-> g.services[n].status] :
        n \in {m \in DOMAIN g.services : namespace # <<>> => m[2] = namespace[1]}}

\* MATCH (s:Service)-[r:DEPENDS_ON]->(t:Service): one row per relationship,
\* with the names of its two ends
DependencyRows(g) ==
    [e \in g.edges |-> [source |-> e.source[1], target |-> e.target[1],
                        type |-> e.dependency_type]]

\* KnowledgeGraph.get_service_topology(namespace)
GetServiceTopology(namespace) ==
    /\ topology' = <<[namespace |-> namespace,
                      services |-> ServiceRows(graph, namespace),
                      dependencies |-> DependencyRows(graph)]>>
    /\ UNCHANGED <<graph, query, records, last_write, declared_metrics, earlier, traversal>>
    /\ UNCHANGED orchVars

InitTopology ==
    /\ agents = <<>>
    /\ flow = <<>>
    /\ execution_history = <<>>
    /\ context = 0
    /\ ctxs = <<>>
    /\ run = [r \in RunIds |-> IdleRun]
    /\ control = 0
    /\ execution = <<>>
    /\ turn = <<>>
    /\ graph \in TopologyGraphs
    /\ query = <<>>
    /\ records = <<>>
    /\ last_write = <<>>
    /\ declared_metrics = {}
    /\ earlier = <<>>
    /\ traversal = <<>>
    /\ topology = <<>>

NextTopology == \E namespace \in NamespaceArgs : GetServiceTopology(namespace)

SpecTopology == InitTopology /\ [][NextTopology]_vars

(***************************************************************************)
(* Properties of the orchestrator.  run[r].calls is the log of the agent   *)
(* executions of run r: the agent's name, the context object it was        *)
(* handed and what execute gave back.                                      *)
(***************************************************************************)
Returned(call) == ~call.result.raised

\* the findings a list of calls should leave: one per result with success
RECURSIVE ExpectedFindings(_)
ExpectedFindings(calls) ==
    IF calls = <<>> THEN <<>>
    ELSE (IF Returned(calls[1]) /\ calls[1].result.success
          THEN <<[agent |-> calls[1].agent, message |-> calls[1].result.message,
                  data |-> calls[1].result.data]>>
          ELSE <<>>)
         \o ExpectedFindings(Tail(calls))

\* the actions a list of calls should leave: those of the successful results
RECURSIVE ExpectedActions(_)
ExpectedActions(calls) ==
    IF calls = <<>> THEN <<>>
    ELSE (IF Returned(calls[1]) /\ calls[1].result.success
             /\ calls[1].result.data.t = "dict" /\ calls[1].result.data.actions # <<>>
          THEN calls[1].result.data.actions[1]
          ELSE <<>>)
         \o ExpectedActions(Tail(calls))

\* one history entry per call
RECURSIVE ExpectedHistory(_)
ExpectedHistory(calls) ==
    IF calls = <<>> THEN <<>>
    ELSE <<[agent |-> calls[1].agent, result |-> calls[1].result]>>
         \o ExpectedHistory(Tail(calls))

IsErrorEntry(entry) == "error" \in DOMAIN entry

\* C1: once an agent has returned a result with terminate = TRUE, that call
\* is the run's last one, the run invokes nothing more, and the per-step
\* results end with the entry of that step.
C1_TerminateEndsResults ==
    \A r \in RunIds : \A k \in 1..Len(run[r].calls) :
        (Returned(run[r].calls[k]) /\ run[r].calls[k].result.terminate) =>
            /\ k = Len(run[r].calls)
            /\ run[r].pc \in {"loop", "done"}
            /\ run[r].results # <<>>
            /\ Last(run[r].results)
                 = [agent |-> run[r].calls[k].agent,
                    success |-> run[r].calls[k].result.success,
                    message |-> run[r].calls[k].result.message,
                    data |-> run[r].calls[k].result.data]

\* a run that has returned, whose flow went on after the terminating step
C1_Witness ==
    \E r \in RunIds :
        /\ run[r].pc = "done"
        /\ run[r].calls # <<>>
        /\ Last(run[r].calls).result.terminate
        /\ Len(run[r].results) < Len(run[r].plan)

\* C2: the per-step results follow the flow entry by entry; the entry of an
\* unregistered name is the error entry and nothing else, no agent is
\* executed under such a name, every other entry is the entry of a result,
\* and a run that returns has gone through its whole flow unless its last
\* step terminated it.
C2_UnregisteredStepIsSkipped ==
    \A r \in RunIds :
        /\ Len(run[r].results) <= Len(run[r].plan)
        /\ \A k \in 1..Len(run[r].results) :
              /\ run[r].results[k].agent = run[r].plan[k]
              /\ run[r].plan[k] \notin DOMAIN agents =>
                    run[r].results[k] = [agent |-> run[r].plan[k], error |-> "Agent not found"]
              /\ run[r].plan[k] \in DOMAIN agents => ~IsErrorEntry(run[r].results[k])
        /\ \A k \in 1..Len(run[r].calls) : run[r].calls[k].agent \in DOMAIN agents
        /\ Len(run[r].calls) <=
              Cardinality({k \in 1..Len(run[r].plan) : run[r].plan[k] \in DOMAIN agents})
        /\ run[r].pc = "done" =>
              \/ Len(run[r].results) = Len(run[r].plan)
              \/ /\ run[r].calls # <<>>
                 /\ Last(run[r].calls).result.terminate

\* a run that has returned met an unregistered name and executed the agent
\* of the entry after it
C2_Witness ==
    \E r \in RunIds :
        /\ run[r].pc = "done"
        /\ \E k \in 1..(Len(run[r].results) - 1) :
              /\ IsErrorEntry(run[r].results[k])
              /\ ~IsErrorEntry(run[r].results[k + 1])

EmptyFlowArg == <<(<<>>)>>

\* C3: a run called with flow = [] executes no agent and returns a summary
\* with no per-step results, no findings and no actions, whatever the
\* orchestrator holds.
C3_EmptyFlowRunsNothing ==
    \A r \in RunIds :
        (run[r].pc # "idle" /\ run[r].flow_arg = EmptyFlowArg) =>
            /\ run[r].pc \in {"loop", "done"}
            /\ run[r].calls = <<>>
            /\ run[r].results = <<>>
            /\ ctxs[r].findings = <<>>
            /\ ctxs[r].actions_taken = <<>>

\* C4: the findings of a run's context are the findings of its successful
\* results, one each, in the order of the calls, and its actions_taken are
\* the actions of those results; a failed result leaves neither.
C4_FindingsOfSuccessfulSteps ==
    \A r \in RunIds :
        run[r].pc # "idle" =>
            /\ ctxs[r].findings = ExpectedFindings(run[r].calls)
            /\ ctxs[r].actions_taken = ExpectedActions(run[r].calls)
            /\ run[r].pc = "done" => run[r].summary[1].context = r

\* a run that has returned had a failed step, a later successful step, and
\* actions taken
C4_Witness ==
    \E r \in RunIds :
        /\ run[r].pc = "done"
        /\ Len(run[r].calls) = 2
        /\ ~run[r].calls[1].result.success
        /\ run[r].calls[2].result.success
        /\ Len(ctxs[r].findings) = 1
        /\ ctxs[r].actions_taken # <<>>

\* C5: the execution history holds exactly one entry per agent execution,
\* in the order of the executions (the runs of Spec come one after the
\* other, run 1 first).
C5_HistoryRecordsEveryInvocation ==
    execution_history = ExpectedHistory(run[1].calls) \o ExpectedHistory(run[2].calls)

\* C6: every agent executed by a run is handed that run's own context, and
\* the summary of a run names its own context, which holds the findings and
\* actions of its own steps only.
C6_RunsOwnTheirContext ==
    \A r \in RunIds :
        /\ run[r].pc = "awaiting" => run[r].arg = r
        /\ \A k \in 1..Len(run[r].calls) : run[r].calls[k].ctx = r
        /\ run[r].pc = "done" =>
              /\ run[r].summary[1].context = r
              /\ ctxs[r].findings = ExpectedFindings(run[r].calls)
              /\ ctxs[r].actions_taken = ExpectedActions(run[r].calls)

\* C7: no execute of an agent raises, so no run ends by an exception that
\* came out of an agent.
C7_ExecuteNeverRaises ==
    \A r \in RunIds : \A k \in 1..Len(run[r].calls) : Returned(run[r].calls[k])

(***************************************************************************)
(* Claims about multi_hop_analysis, checked under SpecGraph.  The claims   *)
(* are stated on what a caller sees: the graph, the arguments of the call  *)
(* and the returned records.                                               *)
(***************************************************************************)
Asked == query # <<>>

StatusOf(name) == graph.services[<<name, "default">>].status

\* the DEPENDS_ON edges from the service named s to the service named t
EdgesBetween(s, t) == {e \in graph.edges : e.source[1] = s /\ e.target[1] = t}

\* 1.0 times 0.8 for every annotated edge and 0.9 for every other edge along
\* the services names[1] -> names[2] -> ..., as score * Scale
RECURSIVE ProductAlong(_)
ProductAlong(names) ==
    IF Len(names) <= 1 THEN Scale
    ELSE LET n == Len(names)
             annotated == \E e \in EdgesBetween(names[n - 1], names[n]) : e.metrics
         IN (ProductAlong(SubSeq(names, 1, n - 1)) * (IF annotated THEN 8 ELSE 9)) \div 10

\* C8: no returned path has a healthy node on it, the start service and the
\* terminal root included, so a healthy start service yields an empty result
C8_NoHealthyNodeOnPath ==
    Asked =>
        /\ \A i \in 1..Len(records) :
              \A j \in 1..Len(records[i].path_services) :
                 StatusOf(records[i].path_services[j]) # "healthy"
        /\ (StatusOf(query[1].start_service) = "healthy" => records = <<>>)

\* a call that returned a path while another path from the start service was
\* left out for the healthy node at its end
C8_Witness ==
    /\ Asked
    /\ records # <<>>
    /\ \E e \in graph.edges :
          /\ e.source[1] = query[1].start_service
          /\ graph.services[e.target].status = "healthy"

\* the service sequences of the directed paths from start of 1..h edges: no
\* service comes twice on a path
DirectedPaths(start, h) ==
    {ns \in UNION {[1..(k + 1) -> Names] : k \in 1..h} :
        /\ ns[1] = start
        /\ \A i \in 1..Len(ns), j \in 1..Len(ns) : ns[i] = ns[j] => i = j
        /\ \A i \in 1..(Len(ns) - 1) : EdgesBetween(ns[i], ns[i + 1]) # {}}

\* C9: the call returns exactly one record for each directed path from start
\* of 1..h edges with no healthy node and a score of at least m (a score
\* equal to m is kept), and nothing else
C9_OneRecordPerDirectedPath ==
    Asked =>
        LET q == query[1]
            expected == {ns \in DirectedPaths(q.start_service, q.max_hops) :
                            /\ \A j \in 1..Len(ns) : StatusOf(ns[j]) # "healthy"
                            /\ ProductAlong(ns) >= q.min_impact_score}
        IN /\ {records[i].path_services : i \in 1..Len(records)} = expected
           /\ Len(records) = Cardinality(expected)

\* C10: the score of every returned record is the product of its edges'
\* factors from 1.0, and a returned path that extends another returned path
\* by one edge never scores higher
C10_ScoreIsProductOfFactors ==
    Asked =>
        /\ \A i \in 1..Len(records) :
              records[i].impact_score = ProductAlong(records[i].path_services)
        /\ \A i \in 1..Len(records), j \in 1..Len(records) :
              LET short == records[i].path_services
                  long == records[j].path_services
              IN (Len(long) = Len(short) + 1 /\ SubSeq(long, 1, Len(short)) = short)
                    => records[j].impact_score <= records[i].impact_score

\* a returned path over an annotated and a plain edge, next to the returned
\* path it extends
C10_Witness ==
    /\ Asked
    /\ \E i \in 1..Len(records), j \in 1..Len(records) :
          LET short == records[i].path_services
              long == records[j].path_services
          IN /\ Len(long) = Len(short) + 1
             /\ SubSeq(long, 1, Len(short)) = short
             /\ records[j].impact_score = (72 * Scale) \div 100

(***************************************************************************)
(* Properties of the store's write operations, checked under SpecStore.    *)
(***************************************************************************)
NodeId(name) == <<name, "default">>

Present(name) == NodeId(name) \in DOMAIN graph.services

\* the store holds what the scenario's calls asked for: A, B and C, A -> B
\* added without metrics and B -> C added with metric annotations
ChainBuilt ==
    /\ \A n \in {"A", "B", "C"} : Present(n)
    /\ EdgesBetween("A", "B") # {}
    /\ EdgesBetween("B", "C") # {}
    /\ <<NodeId("A"), NodeId("B")>> \notin declared_metrics
    /\ <<NodeId("B"), NodeId("C")>> \in declared_metrics

\* C11: on that graph with A, B and C unhealthy, the query from A with
\* max_hops 3 and min_impact_score 0.5 returns C at 2 hops with score 0.72
\* over the path A, B, C; once B is marked healthy no returned path goes
\* through B
C11_ChainScenario ==
    (Asked /\ ChainBuilt
       /\ query[1] = [start_service |-> "A", max_hops |-> 3,
                      min_impact_score |-> Scale \div 2]) =>
        /\ (\A n \in {"A", "B", "C"} : StatusOf(n) = "unhealthy") =>
              \E i \in 1..Len(records) :
                 /\ records[i].service = "C"
                 /\ records[i].hops = 2
                 /\ records[i].impact_score = (72 * Scale) \div 100
                 /\ records[i].path_services = <<"A", "B", "C">>
        /\ StatusOf("B") = "healthy" =>
              \A i \in 1..Len(records) :
                 \A j \in 1..Len(records[i].path_services) :
                    records[i].path_services[j] # "B"

\* C12: the returned records come by impact score descending and, among
\* equal scores, by hop count ascending: no record is followed by one with
\* a higher score, or with the same score and fewer hops
C12_OrderedByScoreThenHops ==
    Asked =>
        \A i \in 1..Len(records), j \in 1..Len(records) :
            i < j =>
                /\ records[j].impact_score <= records[i].impact_score
                /\ records[j].impact_score = records[i].impact_score
                      => records[j].hops >= records[i].hops

\* a call whose first record has a higher score over more hops than a
\* later one
C12_Witness ==
    /\ Asked
    /\ \E i \in 1..Len(records), j \in 1..Len(records) :
          /\ i < j
          /\ records[i].impact_score > records[j].impact_score
          /\ records[i].hops > records[j].hops

C14_TraversalTerminates ==
    /\ [](Traversing => traversal[1].hops <= traversal[1].max_hops)
    /\ [](Asked => records \in MultiHopAnalysis(graph, query[1].start_service,
                                                query[1].max_hops,
                                                query[1].min_impact_score))
    /\ (Traversing ~> ~Traversing)

\* a query that went round a cycle through the start service and returned
C14_Witness ==
    /\ Asked
    /\ ~Traversing
    /\ \E i \in 1..Len(records) :
          /\ records[i].service = query[1].start_service
          /\ records[i].hops >= 2

\* C15: the store never holds two relationships between the same ordered
\* pair of services (nor two nodes of one (name, namespace), the key of
\* graph.services), and applying an add_service or add_dependency call that
\* has just been made once more leaves the graph as it is
C15_AddsAreIdempotent ==
    /\ \A e1 \in graph.edges, e2 \in graph.edges :
          (e1.source = e2.source /\ e1.target = e2.target) => e1 = e2
    /\ \A e \in graph.edges : {e.source, e.target} \subseteq DOMAIN graph.services
    /\ (/\ last_write # <<>>
        /\ last_write[1].returned
        /\ last_write[1].call.op \in {"add_service", "add_dependency"})
          => ApplyWrite(graph, last_write[1].call) = graph

\* an add_dependency call on a pair that had its relationship already, with
\* another dependency_type than the one stored before
C15_Witness ==
    /\ last_write # <<>>
    /\ last_write[1].returned
    /\ last_write[1].existed
    /\ last_write[1].call.op = "add_dependency"
    /\ last_write[1].call.dependency.dependency_type = "uses"
    /\ \E e \in graph.edges : e.dependency_type = "calls"

\* C16: an add_dependency call whose source or target service is not in
\* the graph leaves the graph unchanged and returns a failure, never True
C16_MissingEndpointFails ==
    [][(/\ last_write' # <<>>
        /\ last_write' # last_write
        /\ last_write'[1].call.op = "add_dependency"
        /\ ~last_write'[1].matched)
          => (graph' = graph /\ ~last_write'[1].returned)]_vars

\* C17: writes commute: whenever a write call has been applied, applying
\* any second write call after it gives the graph that the two calls give
\* in the other order
C17_WritesCommute ==
    [][(/\ last_write' # <<>>
        /\ last_write' # last_write
        /\ last_write'[1].returned)
          => \A second \in WriteCalls :
                ApplyWrite(graph', second)
                    = ApplyWrite(ApplyWrite(graph, second), last_write'[1].call)]_vars

(***************************************************************************)
(* Properties of the specialised agents.                                   *)
(***************************************************************************)
\* the service status a root-cause result recorded: the data of its
\* service_status findings
StatusesRecorded(result) ==
    LET findings == result.data.findings[1]
    IN {findings[k].data : k \in {x \in 1..Len(findings) :
                                     findings[x].type = "service_status"}}

\* the types of the actions in an advisor's result
ActionTypes(result) ==
    LET actions == result.data.actions[1]
    IN {actions[k].type : k \in 1..Len(actions)}

\* C19: in a run that executed root_cause_analyzer and then
\* remediation_advisor, the advisor's result holds a scale action exactly
\* when the recorded status has more than 5 restarts and a resource action
\* exactly when it has a CPU usage above 80
C19_AdvisorActsOnRecordedStatus ==
    \A r \in RunIds :
        (/\ Len(run[r].calls) = 2
         /\ run[r].calls[1].agent = "root_cause_analyzer"
         /\ run[r].calls[2].agent = "remediation_advisor"
         /\ Returned(run[r].calls[1])
         /\ Returned(run[r].calls[2])) =>
            \A status \in StatusesRecorded(run[r].calls[1].result) :
                /\ status.restarts > 5 <=> "scale" \in ActionTypes(run[r].calls[2].result)
                /\ status.cpu_usage > 80 <=> "resource" \in ActionTypes(run[r].calls[2].result)

\* the actions the executor was handed: those of the advisor's findings
ProposedBy(findings) ==
    UNION {SeqToSet(findings[k].data.actions[1]) :
              k \in {x \in 1..Len(findings) : findings[x].agent = "remediation_advisor"}}

ExecutorCalled ==
    execution # <<>> /\ execution[1].agent.cls = "ActionExecutor"

\* C18: the executor invokes the patch tool for a proposed action only if
\* auto_execute is set or the action's severity is critical; every other
\* proposed action is recorded as pending_approval, with no tool invocation
\* and no other record
C18_PatchOnlyWhenAllowed ==
    ExecutorCalled =>
        LET x == execution[1]
            recorded == x.result.data.executed_actions[1]
            allowed(a) == x.agent.auto_execute
                          \/ ("severity" \in DOMAIN a /\ a.severity = "critical")
        IN /\ \A k \in 1..Len(x.patch_calls) : allowed(x.patch_calls[k].action)
           /\ \A a \in ProposedBy(x.context.findings) :
                 ~allowed(a) =>
                    /\ \E k \in 1..Len(recorded) :
                          recorded[k].action = a /\ recorded[k].status = "pending_approval"
                    /\ \A k \in 1..Len(recorded) :
                          recorded[k].action = a => recorded[k].status = "pending_approval"
                    /\ \A k \in 1..Len(x.patch_calls) : x.patch_calls[k].action # a

\* an executor without auto_execute that was handed a critical action and
\* one of severity high: it patched for the first and held the second back
C18_Witness ==
    /\ ExecutorCalled
    /\ ~execution[1].agent.auto_execute
    /\ Len(execution[1].patch_calls) = 1
    /\ \E k \in 1..Len(execution[1].result.data.executed_actions[1]) :
          LET rec == execution[1].result.data.executed_actions[1][k]
          IN /\ rec.status = "pending_approval"
             /\ "severity" \in DOMAIN rec.action
             /\ rec.action.severity = "high"

AnalyzerCalled ==
    execution # <<>> /\ execution[1].agent.cls = "RootCauseAnalyzer"

\* the findings of a kind (and, for errors, of a message) in a result
FindingsOf(result, type) ==
    LET findings == result.data.findings[1]
    IN {findings[k] : k \in {x \in 1..Len(findings) : findings[x].type = type}}

\* C20: when the store is unavailable to the analyzer (never connected, or
\* get_dependencies or multi_hop_analysis raises) its result holds an error
\* finding for the store, when the status tool raises it holds an error
\* finding for the tool, the status check is made after a store failure
\* all the same, and the result is a success
C20_FailuresBecomeErrorFindings ==
    AnalyzerCalled =>
        LET x == execution[1]
            errors == IF x.result.raised THEN {} ELSE FindingsOf(x.result, "error")
        IN /\ ~x.result.raised
           /\ x.result.success
           /\ x.env.kg # "ok" =>
                 \E f \in errors : f.message = "Knowledge graph query failed"
           /\ x.env.status.raises =>
                 \E f \in errors : f.message = "Status check failed"
           /\ (x.env.kg # "ok" /\ ~x.env.status.raises) =>
                 FindingsOf(x.result, "service_status") # {}

(***************************************************************************)
(* Properties of the triage agent.                                         *)
(***************************************************************************)
TriageCalled ==
    execution # <<>> /\ execution[1].agent.cls = "TriageAgent"

Severities == {"critical", "high", "medium", "low", "unknown"}
Categories == {"availability", "performance", "resource", "security", "degradation",
               "unknown"}

\* the classification a triage result carries
Classification(result) == <<result.data.severity[1], result.data.category[1]>>

\* C21: whatever the reasoning service does (it raises, or replies with any
\* content), the triage result carries a severity of critical, high, medium,
\* low, unknown and a category of availability, performance, resource,
\* security, degradation, unknown; when the call raises they are the values
\* of the keyword rules
C21_TriageResultIsInRange ==
    TriageCalled =>
        LET x == execution[1]
        IN /\ ~x.result.raised
           /\ Classification(x.result)[1] \in Severities
           /\ Classification(x.result)[2] \in Categories
           /\ (x.agent.use_llm /\ x.env.llm.raises) =>
                 Classification(x.result) = RuleBasedClassification(x.context.symptoms)

\* a tag matches a rule when, in lower case, it is one of the rule's keywords
TagMatches(tag, keywords) == Lower(tag) \in keywords

\* the rules read as a function of the set of tags, in priority order
RulesOnSet(tags) ==
    IF \E t \in tags : TagMatches(t, {"crash", "error", "failure", "down"})
    THEN <<"critical", "availability">>
    ELSE IF \E t \in tags : TagMatches(t, {"slow", "latency", "timeout", "performance"})
    THEN <<"high", "performance">>
    ELSE IF \E t \in tags : TagMatches(t, {"memory", "cpu", "disk", "resource"})
    THEN <<"medium", "resource">>
    ELSE IF \E t \in tags : TagMatches(t, {"warning", "degraded"})
    THEN <<"low", "degradation">>
    ELSE <<"unknown", "unknown">>

\* the executions that were classified by the keyword rules
RulesUsed ==
    TriageCalled /\ (~execution[1].agent.use_llm \/ execution[1].env.llm.raises)

\* C22: the keyword fallback depends on the set of symptom tags only, so
\* every permutation and duplication of the tags gives the same (severity,
\* category): the first rule, in the order critical/availability,
\* high/performance, medium/resource, low/degradation, that a tag matches
\* wins, and unknown/unknown is the result when no tag matches
C22_FallbackIsFunctionOfTagSet ==
    RulesUsed =>
        Classification(execution[1].result)
            = RulesOnSet(SeqToSet(execution[1].context.symptoms))

\* the fallback was given a performance tag before an availability tag and
\* answered critical/availability
C22_Witness ==
    /\ RulesUsed
    /\ execution[1].context.symptoms = <<"slow", "crash">>
    /\ Classification(execution[1].result) = <<"critical", "availability">>

\* the words of a symptom tag, in lower case
WordsOf(tag) == IF tag = "pod crash" THEN {"pod", "crash"} ELSE {Lower(tag)}

\* C23: with the reasoning service disabled the triage agent makes no call
\* to it, and it answers critical/availability for every symptom list with
\* a tag that contains one of the words crash, error, failure, down, be the
\* tag the bare keyword or a multi-word tag
C23_DisabledServiceKeywordTriage ==
    (TriageCalled /\ ~execution[1].agent.use_llm) =>
        /\ execution[1].llm_calls = 0
        /\ (\E i \in DOMAIN execution[1].context.symptoms :
               WordsOf(execution[1].context.symptoms[i])
                  \cap {"crash", "error", "failure", "down"} # {})
              => Classification(execution[1].result) = <<"critical", "availability">>

(***************************************************************************)
(* External calls that do not answer.  The event loop runs a coroutine     *)
(* that is ready, so the steps of the workflow itself are taken; the       *)
(* awaited execute returns when the reasoning service, the tools and the   *)
(* store have answered, and nothing in the code bounds that wait.          *)
(***************************************************************************)
SpecPipelineFair ==
    /\ Init
    /\ [][NextPipeline]_vars
    /\ WF_vars(\E r \in RunIds : StepNotFound(r))
    /\ WF_vars(\E r \in RunIds : Invoke(r))
    /\ WF_vars(\E r \in RunIds : Finish(r))

\* C24: a run that waits for an agent whose call to the reasoning service,
\* to a tool or to the graph store never answers still gets that step
\* recorded and comes to its end: every wait of a run is followed by the
\* return of execute_incident_workflow (with its summary or, when the
\* agent raised, with that exception), so no run waits for ever
C24_NoRunHangsOnExternalCall ==
    \A r \in RunIds : (run[r].pc = "awaiting") ~> (run[r].pc \in {"done", "raised"})

\* C25: no path that multi_hop_analysis returns holds the same service
\* twice; on a graph with a cycle through the start service, the start
\* service is never returned as its own root cause
C25_NoServiceTwiceOnPath ==
    Asked =>
        \A i \in 1..Len(records) :
            /\ \A a \in 1..Len(records[i].path_services),
                  b \in 1..Len(records[i].path_services) :
                     records[i].path_services[a] = records[i].path_services[b] => a = b
            /\ records[i].service # query[1].start_service

(***************************************************************************)
(* Properties of one execute followed step by step.  turn[1].states is     *)
(* the state the agent had when execute was entered, followed by every     *)
(* value execute assigned to agent.state since.                            *)
(***************************************************************************)
Moves ==
    {<<"thinking", "executing">>, <<"thinking", "completed">>,
     <<"executing", "completed">>, <<"thinking", "error">>, <<"executing", "error">>}

\* C26: within one execute the agent's state moves only from the state it
\* had before to Thinking, from Thinking to Executing, Completed or Error
\* and from Executing to Completed or Error; Executing is entered only when
\* the reasoning service requested tool calls, and once Completed or Error
\* is reached the state does not change any more in that execute, so an
\* agent that reached Error does not end it as Completed
C26_StateMachineOfOneInvocation ==
    turn # <<>> =>
        LET states == turn[1].states
        IN /\ states[2] = "thinking"
           /\ \A i \in 2..(Len(states) - 1) :
                 states[i] = states[i + 1] \/ <<states[i], states[i + 1]>> \in Moves
           /\ (\E i \in 2..Len(states) : states[i] = "executing")
                 => turn[1].requested # <<>>
           /\ \A i \in 2..Len(states), j \in 2..Len(states) :
                 (i < j /\ states[i] \in {"completed", "error"}) => states[j] = states[i]

\* the tool messages of the conversation, in order
ToolMessagesOf(messages) ==
    LET idx == {i \in 1..Len(messages) : messages[i].role = "tool"}
        RECURSIVE Pick(_)
        Pick(i) == IF i > Len(messages) THEN <<>>
                   ELSE (IF i \in idx THEN <<messages[i]>> ELSE <<>>) \o Pick(i + 1)
    IN Pick(1)

\* the result the k-th requested call leaves: the tool's, or the error entry
\* of a tool the agent does not have
ResultOfCall(t, k) ==
    IF t.requested[k].name \in ToolsOf(t.agent) THEN [value |-> k]
    ELSE [error |-> "Tool not found"]

\* the tool calls of the first reply are over and the conversation was
\* extended for the follow-up query
FollowUpReached ==
    /\ turn # <<>>
    /\ turn[1].requested # <<>>
    /\ turn[1].messages[Len(turn[1].messages)].role # "user"

\* C27: when the first reply requests n tool calls and the follow-up query
\* is reached, the tools were run one at a time in request order and the
\* conversation holds exactly n tool-result messages, the k-th for the k-th
\* requested call, also when a tool is requested more than once; the
\* reasoning service is then queried once more, and only once
C27_OneToolMessagePerCall ==
    FollowUpReached =>
        LET t == turn[1]
            msgs == ToolMessagesOf(t.messages)
            have == {k \in 1..Len(t.requested) : t.requested[k].name \in ToolsOf(t.agent)}
        IN /\ Len(t.executed) = Cardinality(have)
           /\ \A k \in 1..Len(t.executed) :
                 /\ t.executed[k].call \in have
                 /\ \A j \in 1..Len(t.executed) :
                       j < k => t.executed[j].call < t.executed[k].call
           /\ Len(msgs) = Len(t.requested)
           /\ \A k \in 1..Len(msgs) :
                 k <= Len(t.requested) =>
                    /\ msgs[k].tool = t.requested[k].name
                    /\ msgs[k].result = ResultOfCall(t, k)
           /\ t.pc = "done" => t.llm_calls = 2

\* the actions the executor was handed, in the order of the findings
RECURSIVE ProposedSeq(_)
ProposedSeq(findings) ==
    IF findings = <<>> THEN <<>>
    ELSE (IF findings[1].agent = "remediation_advisor"
          THEN findings[1].data.actions[1] ELSE <<>>)
         \o ProposedSeq(Tail(findings))

\* C28: the executor's result holds exactly one record for every action of
\* a remediation_advisor finding, in their order, with status executed,
\* failed or pending_approval, whatever the action's type and whatever
\* auto_execute is; an action whose patch raises is recorded as failed and
\* the actions after it are processed all the same
C28_EveryActionIsRecorded ==
    ExecutorCalled =>
        LET x == execution[1]
            recorded == x.result.data.executed_actions[1]
            proposed == ProposedSeq(x.context.findings)
        IN /\ Len(recorded) = Len(proposed)
           /\ \A k \in 1..Len(recorded) :
                 k <= Len(proposed) =>
                    /\ recorded[k].action = proposed[k]
                    /\ recorded[k].status \in {"executed", "failed", "pending_approval"}
                    /\ (recorded[k].status # "pending_approval" /\ x.env.patch.raises)
                          => recorded[k].status = "failed"

\* the executor was called on a context that holds an advisor's result
AdvisedExecutorCalled ==
    ExecutorCalled /\ "advised" \in DOMAIN execution[1]

\* C30: an executor constructed with auto_execute = False never invokes the
\* patch tool for an action that RemediationAdvisor produced: those actions
\* carry no severity, and each of them is recorded as pending_approval
C30_AdvisorActionsWaitForApproval ==
    (AdvisedExecutorCalled /\ ~execution[1].agent.auto_execute) =>
        LET x == execution[1]
            actions == x.advised.data.actions[1]
        IN /\ x.patch_calls = <<>>
           /\ \A k \in 1..Len(actions) : "severity" \notin DOMAIN actions[k]
           /\ x.result.data.executed_actions[1]
                 = [k \in 1..Len(actions) |->
                       [action |-> actions[k], status |-> "pending_approval"]]

\* the advisor proposed a scale and a resource action while the reasoning
\* service proposed a critical one, and the executor without auto_execute
\* held both back
C30_Witness ==
    /\ AdvisedExecutorCalled
    /\ ~execution[1].agent.auto_execute
    /\ ~execution[1].env.llm.raises
    /\ Len(execution[1].advised.data.actions[1]) = 2
    /\ Len(execution[1].advised.data.recommendations[1]) = 3
    /\ Len(execution[1].result.data.executed_actions[1]) = 2
    /\ execution[1].patch_calls = <<>>

\* the services of the store a listing returned
ListedNodes == {<<row.name, row.namespace>> : row \in topology[1].services}

\* C29: get_service_topology(namespace = ns) returns only the services of
\* namespace ns and only the dependency edges whose two ends are both among
\* the returned services; without a namespace it returns every service and
\* every edge
C29_TopologyIsNamespaceFiltered ==
    topology # <<>> =>
        LET t == topology[1]
        IN IF t.namespace # <<>>
           THEN /\ ListedNodes = {n \in DOMAIN graph.services : n[2] = t.namespace[1]}
                /\ \A e \in DOMAIN t.dependencies :
                      e.source \in ListedNodes /\ e.target \in ListedNodes
           ELSE /\ ListedNodes = DOMAIN graph.services
                /\ DOMAIN t.dependencies = graph.edges
=============================================================================
